---- MODULE Spec2Model ----
(***************************************************************************)
(* A model of the Windows event log harvesting and analysis tool.          *)
(*                                                                         *)
(*   Spec           WindowsEventLogGatherer.gather_events with its two     *)
(*                  channel readers (src/gather_logs.py)                   *)
(*   SpecNormalize  the two normalizers as pure functions                  *)
(*                  (src/gather_logs.py)                                   *)
(*   SpecAnalyse    WindowsEventLogAnalyser: the loaders and save_to_json  *)
(*                  (src/log_analysis.py)                                  *)
(*   SpecExport     the three exporters and the loader reading back the    *)
(*                  flat file (src/gather_logs.py, src/log_analysis.py)    *)
(*   SpecPipeline   LogProcessingOrchestrator.run_pipeline (src/main.py)   *)
(*   SpecInterleaved  two channel reads of one gather_events call run as   *)
(*                  tasks that are suspended and resumed between steps     *)
(*                  (src/gather_logs.py)                                   *)
(*   SpecDashboard  the update_logs_and_page callback of the log viewer    *)
(*                  (src/log-visualisation.py)                             *)
(*                                                                         *)
(* Timestamps are whole seconds of host-local time: the canonical text     *)
(* form "YYYY-MM-DD HH:MM:SS" has second precision, so a formatted time is *)
(* modelled by the second it names.                                        *)
(***************************************************************************)
EXTENDS Integers, Sequences, FiniteSets, TLC

VARIABLES
    \* ---- WindowsEventLogGatherer (src/gather_logs.py) ----
    log_types,        \* self.log_types: the configured channels, in order
    log_levels,       \* self.log_levels: the Severities to retain
    gathered_events,  \* self.gathered_events
    hours,            \* the argument of the running gather_events call
    pc,               \* where the running gather_events call stands
    chan,             \* index into log_types of the channel being read
    begin_sec,        \* read_event_log / read_defender_log: begin_sec
    events_from_log,  \* the running channel read's local result list
    log_handle,       \* the running read's handle (0: None)
    event_count,      \* the running channel read's event_count: records pulled
    served,           \* records the host has handed out so far, over all reads
    handles,          \* per handle ever opened: closes and reads after close
    evt_handles,      \* per EvtQuery handle ever obtained: closes
    clock,            \* time.time()
    calls,            \* gather_events calls made so far
    \* history of the running gather_events call
    ping,             \* what ping_host returned: "none", "up", "down"
    started,          \* channel reads started
    failed,           \* indexes of the channels whose read failed
    call_base,        \* Len(gathered_events) when the call began
    sawOld,           \* the running read pulled a batch holding a record older than the cutoff
    pulled,           \* the raw records the last channel read started has pulled, in order
    \* ---- the normalizers as pure functions ----
    norm_in,          \* the raw record handed to a normalizer
    norm_out,         \* what the normalizer returned
    \* ---- WindowsEventLogAnalyser (src/log_analysis.py) ----
    reference_events, \* self.reference_events
    log_events,       \* self.log_events
    event_counter,    \* self.event_counter
    json_doc,         \* the document at the output path
    rows_read,        \* rows the loaders have read so far, over all calls
    last,             \* the last loader or exporter call and how it ended
    \* ---- the files the gatherer's exporters write ----
    csv_file,         \* the file at save_to_csv's target path
    ids_file,         \* the file at the unique ids and types path
    exported,         \* the last save_to_csv call returned normally
    \* ---- LogProcessingOrchestrator.run_pipeline (src/main.py) ----
    ppc,              \* where run_pipeline stands
    success_count,    \* run_pipeline's success_count
    executed,         \* the steps run_pipeline has started, each with its result
    cleanups,         \* calls of cleanup() made by run_pipeline
    returned,         \* what run_pipeline returned: "none", "True", "False"
    \* ---- two channel reads run as interleaved tasks ----
    task,             \* the task whose frame the reader's locals hold
    parked,           \* the frame of the task that is not running
    overlapped,       \* a task was suspended in mid-read while the other was in mid-read
    \* ---- the dashboard's page (src/log-visualisation.py) ----
    source_filter,    \* the value of the source dropdown
    type_filter,      \* the value of the event type dropdown
    event_id_filter,  \* the text of the event id box, character by character
    start_date,       \* date_range.start_date, a day number (0: none)
    end_date,         \* date_range.end_date, a day number (0: none)
    start_time,       \* the text of the start time box
    end_time,         \* the text of the end time box
    filtered_logs_store,  \* dcc.Store filtered_logs_store: data
    page_store        \* dcc.Store page_store: data

gvars == <<log_types, log_levels, gathered_events, hours, pc, chan, begin_sec,
           events_from_log, log_handle, event_count, served, handles,
           evt_handles, clock, calls, ping, started, failed, call_base, sawOld,
           pulled>>
nvars == <<norm_in, norm_out>>
avars == <<reference_events, log_events, event_counter, json_doc, rows_read,
           last>>
fvars == <<csv_file, ids_file, exported>>
pvars == <<ppc, success_count, executed, cleanups, returned>>
cvars == <<task, parked, overlapped>>
dvars == <<source_filter, type_filter, event_id_filter, start_date, end_date,
           start_time, end_time, filtered_logs_store, page_store>>
vars == <<gvars, nvars, avars, fvars, pvars, cvars, dvars>>

\* The gatherer's variables other than gathered_events, and the analyser's
\* other than last.
gctl == <<log_types, log_levels, hours, pc, chan, begin_sec, events_from_log,
          log_handle, event_count, served, handles, evt_handles, clock, calls,
          ping, started, failed, call_base, sawOld, pulled>>
astate == <<reference_events, log_events, event_counter, json_doc, rows_read>>

----------------------------------------------------------------------------
(* Bounds of the model *)

MaxBatch == 2    \* records in one ReadEventLog / EvtNext batch
MaxRecords == 3  \* records the host's channels hand out in one run of the model
MaxCalls == 2    \* gather_events calls on one gatherer
MaxRows == 3     \* rows the analyser's loaders read in one run of the model
MaxEvents == 2   \* Events of a gathered collection handed to the exporters
DfRows == 30     \* rows of the logs table the dashboard loads

(* Program constants *)

seconds_per_hour == 3600
EventIdMask == 65535
DefenderBatchSize == 10
EVENTLOG_ERROR_TYPE == 1
EVENTLOG_WARNING_TYPE == 2
EVENTLOG_INFORMATION_TYPE == 4
EVENTLOG_AUDIT_SUCCESS == 8
EVENTLOG_AUDIT_FAILURE == 16
PageSize == 25

DefenderChannel == "Microsoft-Windows-Windows Defender/Operational"
NoMessageData == "No message data"

Severities ==
    {"CRITICAL", "ERROR", "WARNING", "INFORMATION", "AUDIT_SUCCESS",
     "AUDIT_FAILURE", "OTHER"}

Min(a, b) == IF a <= b THEN a ELSE b

\* The non-empty sequences over S of at most n elements.
SeqsUpTo(S, n) == UNION {[1..k -> S] : k \in 1..n}

----------------------------------------------------------------------------
(* The canonical Event and the normalizers (src/gather_logs.py) *)

\* Event_Category is a numeric code on the sequential path and a text on the
\* structured path.
CategoryCode(c) == [isCode |-> TRUE, code |-> c, text |-> ""]
CategoryText(t) == [isCode |-> FALSE, code |-> 0, text |-> t]

\* Message: the sentinel, the rendering of a list of parts (sequential path),
\* the parts joined with " | " (structured path), or the placeholder's text.
MessageSentinel == [kind |-> NoMessageData, parts |-> <<>>]
MessageList(ps) == [kind |-> "str(list)", parts |-> ps]
MessageJoined(ps) == [kind |-> " | ", parts |-> ps]
MessageFailed == [kind |-> "Failed to parse event", parts |-> <<>>]

NoneItem == "None"

RECURSIVE NotNone(_)
NotNone(items) ==
    IF items = <<>> THEN <<>>
    ELSE IF Head(items) = NoneItem THEN NotNone(Tail(items))
    ELSE <<Head(items)>> \o NotNone(Tail(items))

\* x & 0xFFFF on a Python int: the low 16 bits, never negative.
Mask16(x) == x % (EventIdMask + 1)

event_type_map_keys ==
    {EVENTLOG_ERROR_TYPE, EVENTLOG_AUDIT_FAILURE, EVENTLOG_WARNING_TYPE,
     EVENTLOG_INFORMATION_TYPE}

event_type_map_get_unknown(event_type) ==
    CASE event_type = EVENTLOG_ERROR_TYPE -> "ERROR"
      [] event_type = EVENTLOG_AUDIT_FAILURE -> "ERROR"
      [] event_type = EVENTLOG_WARNING_TYPE -> "WARNING"
      [] event_type = EVENTLOG_INFORMATION_TYPE -> "INFORMATION"
      [] OTHER -> "UNKNOWN"

\* event_type_map.get(event_type, "OTHER")
event_type_map_get(event_type) ==
    CASE event_type = EVENTLOG_ERROR_TYPE -> "ERROR"
      [] event_type = EVENTLOG_AUDIT_FAILURE -> "ERROR"
      [] event_type = EVENTLOG_WARNING_TYPE -> "WARNING"
      [] event_type = EVENTLOG_INFORMATION_TYPE -> "INFORMATION"
      [] OTHER -> "OTHER"

\* event_type_map.get(event_type, "OTHER") of normalize_logs in
\* src/gather-logs.py, the other copy of the gatherer.
gather_dash_logs_event_type_map_get(event_type) ==
    CASE event_type = EVENTLOG_ERROR_TYPE -> "ERROR"
      [] event_type = EVENTLOG_WARNING_TYPE -> "WARNING"
      [] event_type = EVENTLOG_INFORMATION_TYPE -> "INFORMATION"
      [] event_type = EVENTLOG_AUDIT_SUCCESS -> "AUDIT_SUCCESS"
      [] event_type = EVENTLOG_AUDIT_FAILURE -> "AUDIT_FAILURE"
      [] OTHER -> "OTHER"

\* normalize_logs: raises when strptime rejects TimeGenerated.Format() (the
\* default format is the locale's); otherwise the Event, the record's time
\* in seconds and its Severity.
normalize_logs(event, log_type) ==
    IF ~event.TimeGenerated.parses
    THEN [raised |-> TRUE]
    ELSE LET event_type_string == event_type_map_get(event.EventType)
             message ==
                 IF event.StringInserts.isNone THEN MessageSentinel
                 ELSE MessageList(NotNone(event.StringInserts.items))
         IN [raised |-> FALSE,
             seconds |-> event.TimeGenerated.sec,
             event_type_string |-> event_type_string,
             event |->
                 [Event |-> log_type,
                  Time |-> event.TimeGenerated.sec,
                  Event_Type |-> event_type_string,
                  Event_ID |-> Mask16(event.EventID),
                  Event_Category |-> CategoryCode(event.EventCategory),
                  Source |-> event.SourceName,
                  Message |-> message,
                  RecordNumber |-> event.RecordNumber]]

map_defender_level(level) ==
    IF level <= 1 THEN "CRITICAL"
    ELSE IF level = 2 THEN "ERROR"
    ELSE IF level = 3 THEN "WARNING"
    ELSE IF level = 4 THEN "INFORMATION"
    ELSE "OTHER"

\* The placeholder normalize_defender_logs returns from its except branch.
DefenderPlaceholder(now) ==
    [Event |-> DefenderChannel,
     Time |-> now,
     Event_Type |-> "ERROR",
     Event_ID |-> 0,
     Event_Category |-> CategoryText("Processing Error"),
     Source |-> "LogParser",
     Message |-> MessageFailed,
     RecordNumber |-> 0]

\* normalize_defender_logs: `parses` is false when EvtRender raises, the XML
\* is malformed, an element is missing or a number does not parse; every such
\* failure is caught by the one except branch. time_created[:19] drops the
\* fraction of the second.
normalize_defender_logs(event, now) ==
    IF ~event.parses
    THEN DefenderPlaceholder(now)
    ELSE [Event |-> DefenderChannel,
          Time |-> event.SystemTime.sec,
          Event_Type |-> map_defender_level(event.Level),
          Event_ID |-> event.EventID,
          Event_Category |-> CategoryText(event.Task),
          Source |-> event.Provider,
          Message |-> IF NotNone(event.Data) = <<>> THEN MessageSentinel
                      ELSE MessageJoined(NotNone(event.Data)),
          RecordNumber |-> event.EventRecordID]

should_include_event(event_type, levels) == event_type \in levels

----------------------------------------------------------------------------
(* The environment of a gather_events run: what the host's channels hold *)

System == "System"
Security == "Security"

\* A record of a classic channel, as ReadEventLog hands it over.
SeqRaw(sec, parses, event_type, event_id) ==
    [TimeGenerated |-> [sec |-> sec, parses |-> parses],
     EventType |-> event_type,
     EventID |-> event_id,
     EventCategory |-> 0,
     SourceName |-> "Service Control Manager",
     StringInserts |-> [isNone |-> TRUE, items |-> <<>>],
     RecordNumber |-> 1]

\* A record of the Defender channel, as EvtNext hands it over and EvtRender
\* renders it.
DefRaw(sec, parses, level, event_id) ==
    [parses |-> parses,
     EventID |-> event_id,
     Provider |-> "Microsoft-Windows-Windows Defender",
     SystemTime |-> [sec |-> sec, fraction |-> 0],
     Level |-> level,
     Task |-> "0",
     Data |-> <<>>,
     EventRecordID |-> 1]

\* The records a classic channel may hold around a cutoff: one second older
\* than the cutoff and exactly at the cutoff (not older); of a Severity every
\* configuration retains and of one some filter out; and a record whose time
\* text does not parse.
SeqRecords(cutoff) ==
    {SeqRaw(cutoff - 1, TRUE, EVENTLOG_ERROR_TYPE, 4624),
     SeqRaw(cutoff, TRUE, EVENTLOG_ERROR_TYPE, 4624),
     SeqRaw(cutoff, TRUE, EVENTLOG_INFORMATION_TYPE, 4624),
     SeqRaw(cutoff, FALSE, EVENTLOG_ERROR_TYPE, 4624)}

\* The records the Defender query may match: the query filters on time, so
\* each is newer than the cutoff.
DefRecords(cutoff) ==
    {DefRaw(cutoff + 1, TRUE, 4, 1116), DefRaw(cutoff + 1, FALSE, 4, 1116)}

ChannelConfigs ==
    {<<System, Security>>, <<System, DefenderChannel>>,
     <<DefenderChannel, System>>}

LevelConfigs ==
    {{"ERROR"}, {"CRITICAL", "ERROR", "INFORMATION", "WARNING"}}

ProbeOutcomes == {"exit 0", "exit 1", "raised"}

\* The hours arguments tried: the rejected ones and a one-hour window.
HoursInputs == {-1, 0, 1}

ClockStart == seconds_per_hour * 24

----------------------------------------------------------------------------
(* WindowsEventLogGatherer.gather_events and the channel readers *)

\* ping_host: the probe's return code is 0; an exception (the timeout
\* included) gives False.
ping_host(outcome) == outcome = "exit 0"

ChannelLoopEnteredAlways(reachable) == TRUE

\* gather_events: the channel loop runs only under `if self.ping_host():`.
ChannelLoopEntered(reachable) == reachable

NewHandle == [closes |-> 0, lateReads |-> 0]

open_event_log_exit_no_finally(hs, h, how) ==
    IF h # 0 /\ how = "normal"
    THEN [hs EXCEPT ![h].closes = @ + 1]
    ELSE hs

\* open_event_log's finally branch: CloseEventLog(log_handle) if the handle
\* was obtained, however the with block is left.
open_event_log_exit(hs, h, how) ==
    IF h # 0 THEN [hs EXCEPT ![h].closes = @ + 1] ELSE hs

\* ReadEventLog(log_handle, flags, 0) as the handle table sees it.
ReadOnHandle(hs, h) ==
    IF hs[h].closes > 0 THEN [hs EXCEPT ![h].lateReads = @ + 1] ELSE hs

RECURSIVE ProcessBatch(_, _, _, _)

ProcessBatchWithinWindow(events, acc, log_type, levels) ==
    LET bad == {i \in 1..Len(events) :
                    normalize_logs(events[i], log_type).raised}
        n == IF bad = {} THEN Len(events)
             ELSE (CHOOSE i \in bad : \A j \in bad : i <= j) - 1
        norm == [i \in 1..n |-> normalize_logs(events[i], log_type)]
        kept == SelectSeq(norm, LAMBDA x :
                    /\ should_include_event(x.event_type_string, levels)
                    /\ x.seconds >= begin_sec - seconds_per_hour * hours)
    IN [raised |-> bad # {},
        events_from_log |-> acc \o [i \in 1..Len(kept) |-> kept[i].event]]

\* read_event_log's for loop over one batch: each record is normalized and
\* appended if its Severity is retained; a record normalize_logs raises on
\* ends the loop with the exception.
ProcessBatch(events, acc, log_type, levels) ==
    IF events = <<>>
    THEN [raised |-> FALSE, events_from_log |-> acc]
    ELSE LET n == normalize_logs(Head(events), log_type)
         IN IF n.raised
            THEN [raised |-> TRUE, events_from_log |-> acc]
            ELSE ProcessBatch(
                     Tail(events),
                     IF should_include_event(n.event_type_string, levels)
                     THEN Append(acc, n.event)
                     ELSE acc,
                     log_type, levels)

\* `seconds` after the for loop: the time of the batch's last record.
SecondsAfterLoop(events, log_type) ==
    normalize_logs(events[Len(events)], log_type).seconds

\* if seconds < begin_sec - how_many_seconds_back_to_search
WindowExceeded(seconds, begin, h) == seconds < begin - seconds_per_hour * h

RECURSIVE ProcessDefenderBatch(_, _, _)

ProcessDefenderBatchParsedOnly(events, acc, now) ==
    LET parsed == SelectSeq(events, LAMBDA e : e.parses)
    IN acc \o [i \in 1..Len(parsed) |-> normalize_defender_logs(parsed[i], now)]

\* read_defender_log's for loop over one batch: every record is normalized
\* (normalize_defender_logs returns a placeholder instead of raising) and
\* appended.
ProcessDefenderBatch(events, acc, now) ==
    IF events = <<>> THEN acc
    ELSE ProcessDefenderBatch(
             Tail(events),
             Append(acc, normalize_defender_logs(Head(events), now)),
             now)

Cutoff == begin_sec - seconds_per_hour * hours

\* A batch holds a record that parses and is older than the cutoff.
HoldsOld(events, cutoff) ==
    \E i \in 1..Len(events) :
        /\ events[i].TimeGenerated.parses
        /\ events[i].TimeGenerated.sec < cutoff

NormalizeIdle ==
    /\ norm_in = [variant |-> "none"]
    /\ norm_out = [done |-> FALSE]

AnalyserIdle ==
    /\ reference_events = <<>>
    /\ log_events = <<>>
    /\ event_counter = <<>>
    /\ json_doc = [exists |-> FALSE, events |-> <<>>, closed |-> FALSE]
    /\ rows_read = 0
    /\ last = "none"

\* A path nothing has been written to.
AbsentCsv == [exists |-> FALSE, fieldnames |-> <<>>, rows |-> <<>>]
AbsentIds == [exists |-> FALSE, headings |-> 0, types |-> <<>>, ids |-> <<>>]

ExportIdle ==
    /\ csv_file = AbsentCsv
    /\ ids_file = AbsentIds
    /\ exported = FALSE

PipelineIdle ==
    /\ ppc = "none"
    /\ success_count = 0
    /\ executed = <<>>
    /\ cleanups = 0
    /\ returned = "none"

\* No task is parked: the reads run one after the other.
NoFrame ==
    [pc |-> "none", chan |-> 0, begin_sec |-> 0, events_from_log |-> <<>>,
     log_handle |-> 0, event_count |-> 0, sawOld |-> FALSE, pulled |-> <<>>]

InterleavingIdle ==
    /\ task = 0
    /\ parked = NoFrame
    /\ overlapped = FALSE

\* The stores as the layout creates them: no data, and data=0.
NoLogs == [isNone |-> TRUE, logs |-> <<>>]

DashboardIdle ==
    /\ source_filter = "All"
    /\ type_filter = "All"
    /\ event_id_filter = <<>>
    /\ start_date = 0
    /\ end_date = 0
    /\ start_time = ""
    /\ end_time = ""
    /\ filtered_logs_store = NoLogs
    /\ page_store = 0

Init ==
    /\ log_types \in ChannelConfigs
    /\ log_levels \in LevelConfigs
    /\ gathered_events = <<>>
    /\ hours = 0
    /\ pc = "idle"
    /\ chan = 0
    /\ begin_sec = 0
    /\ events_from_log = <<>>
    /\ log_handle = 0
    /\ event_count = 0
    /\ served = 0
    /\ handles = <<>>
    /\ evt_handles = <<>>
    /\ clock = ClockStart
    /\ calls = 0
    /\ ping = "none"
    /\ started = 0
    /\ failed = {}
    /\ call_base = 0
    /\ sawOld = FALSE
    /\ pulled = <<>>
    /\ NormalizeIdle
    /\ AnalyserIdle
    /\ ExportIdle
    /\ PipelineIdle
    /\ InterleavingIdle
    /\ DashboardIdle

HoursRejectedBelowZero(h) == 0 > h

\* if 0 >= hours: raise ValueError
HoursRejected(h) == 0 >= h

\* gather_events(hours) up to the probe: a non-positive window is rejected;
\* then the file holding the host name is read, and open() may raise.
GatherEvents(h, ip_file_opens) ==
    /\ pc \in {"idle", "returned", "raised"}
    /\ calls < MaxCalls
    /\ calls' = calls + 1
    /\ hours' = h
    /\ ping' = "none"
    /\ started' = 0
    /\ failed' = {}
    /\ call_base' = Len(gathered_events)
    /\ pc' = IF HoursRejected(h) \/ ~ip_file_opens THEN "raised" ELSE "ping"
    /\ UNCHANGED <<log_types, log_levels, gathered_events, chan, begin_sec,
                   events_from_log, log_handle, event_count, served, handles,
                   evt_handles, clock, sawOld, pulled>>
    /\ UNCHANGED <<nvars, cvars, dvars, avars, fvars, pvars>>

\* if self.ping_host(): ... else: warn; return self.gathered_events
PingHost(outcome) ==
    /\ pc = "ping"
    /\ ping' = IF ping_host(outcome) THEN "up" ELSE "down"
    /\ pc' = IF ChannelLoopEntered(ping_host(outcome)) THEN "loop" ELSE "returned"
    /\ chan' = 1
    /\ UNCHANGED <<log_types, log_levels, gathered_events, hours, begin_sec,
                   events_from_log, log_handle, event_count, served, handles,
                   evt_handles, clock, calls, started, failed, call_base,
                   sawOld, pulled>>
    /\ UNCHANGED <<nvars, cvars, dvars, avars, fvars, pvars>>

\* The for loop is exhausted: return self.gathered_events.
GatherReturn ==
    /\ pc = "loop"
    /\ chan > Len(log_types)
    /\ pc' = "returned"
    /\ UNCHANGED <<log_types, log_levels, gathered_events, hours, chan,
                   begin_sec, events_from_log, log_handle, event_count, served,
                   handles, evt_handles, clock, calls, ping, started, failed,
                   call_base, sawOld, pulled>>
    /\ UNCHANGED <<nvars, cvars, dvars, avars, fvars, pvars>>

\* A channel read returns `events` to gather_events, which extends
\* gathered_events with them and moves to the next channel.
ReadReturns(events, hs, isFailure) ==
    /\ gathered_events' = gathered_events \o events
    /\ handles' = hs
    /\ failed' = IF isFailure THEN failed \cup {chan} ELSE failed
    /\ chan' = chan + 1
    /\ pc' = "loop"
    /\ log_handle' = 0
    /\ events_from_log' = <<>>
    /\ sawOld' = FALSE
    /\ UNCHANGED <<log_types, log_levels, hours, clock, calls, ping, call_base>>
    /\ UNCHANGED <<nvars, cvars, dvars, avars, fvars, pvars>>

\* A channel read starts: begin_sec = time.time(); events_from_log = [].
ReadStarts ==
    /\ begin_sec' = clock
    /\ event_count' = 0
    /\ started' = started + 1
    /\ pulled' = <<>>
    /\ UNCHANGED served

ClassicChannelNext ==
    /\ pc = "loop"
    /\ chan <= Len(log_types)
    /\ log_types[chan] # DefenderChannel

\* read_event_log: OpenEventLog succeeds and the with block is entered.
OpenEventLogOk ==
    /\ ClassicChannelNext
    /\ ReadStarts
    /\ events_from_log' = <<>>
    /\ handles' = Append(handles, NewHandle)
    /\ log_handle' = Len(handles) + 1
    /\ sawOld' = FALSE
    /\ pc' = "seq_read"
    /\ UNCHANGED <<log_types, log_levels, gathered_events, hours, chan, clock,
                   calls, ping, failed, call_base, evt_handles>>
    /\ UNCHANGED <<nvars, cvars, dvars, avars, fvars, pvars>>

\* read_event_log: OpenEventLog raises win32evtlog.error (access denied, RPC
\* server unavailable, another error: each branch only logs); log_handle is
\* None, nothing is closed, and the empty list is returned.
OpenEventLogFails ==
    /\ ClassicChannelNext
    /\ ReadStarts
    /\ UNCHANGED evt_handles
    /\ ReadReturns(<<>>, open_event_log_exit(handles, 0, "error"), TRUE)

\* How many records of a batch the for loop reaches: all of them, or those
\* up to the first one normalize_logs raises on.
RECURSIVE Reached(_, _)
Reached(events, log_type) ==
    IF events = <<>> THEN 0
    ELSE IF normalize_logs(Head(events), log_type).raised THEN 1
    ELSE 1 + Reached(Tail(events), log_type)

\* One turn of the while loop: ReadEventLog returns a non-empty batch every
\* record of which normalizes; the read ends if the last record's time is
\* older than the cutoff.
ReadEventLogBatch(events) ==
    /\ pc = "seq_read"
    /\ served + Len(events) <= MaxRecords
    /\ LET r == ProcessBatch(events, events_from_log, log_types[chan], log_levels)
           hs == ReadOnHandle(handles, log_handle)
       IN /\ ~r.raised
          /\ served' = served + Len(events)
          /\ event_count' = event_count + Len(events)
          /\ pulled' = pulled \o events
          /\ UNCHANGED <<begin_sec, started, evt_handles>>
          /\ IF WindowExceeded(SecondsAfterLoop(events, log_types[chan]),
                               begin_sec, hours)
             THEN ReadReturns(r.events_from_log,
                              open_event_log_exit(hs, log_handle, "normal"),
                              FALSE)
             ELSE /\ events_from_log' = r.events_from_log
                  /\ handles' = hs
                  /\ sawOld' = (sawOld \/ HoldsOld(events, Cutoff))
                  /\ UNCHANGED <<log_types, log_levels, gathered_events,
                                 hours, pc, chan, log_handle, clock, calls,
                                 ping, failed, call_base>>
                  /\ UNCHANGED <<nvars, cvars, dvars, avars, fvars, pvars>>

\* ReadEventLog returns a batch holding a record normalize_logs raises on:
\* the ValueError leaves the with block (the handle is closed), is not a
\* win32evtlog.error, and leaves read_event_log and gather_events.
ReadEventLogMalformed(events) ==
    /\ pc = "seq_read"
    /\ served + Len(events) <= MaxRecords
    /\ ProcessBatch(events, events_from_log, log_types[chan], log_levels).raised
    /\ served' = served + Len(events)
    /\ event_count' = event_count + Reached(events, log_types[chan])
    /\ pulled' = pulled \o events
    /\ handles' = open_event_log_exit(ReadOnHandle(handles, log_handle),
                                      log_handle, "error")
    /\ pc' = "raised"
    /\ log_handle' = 0
    /\ events_from_log' = <<>>
    /\ sawOld' = FALSE
    /\ UNCHANGED <<log_types, log_levels, gathered_events, hours, chan,
                   begin_sec, clock, calls, ping, started, failed, call_base,
                   evt_handles>>
    /\ UNCHANGED <<nvars, cvars, dvars, avars, fvars, pvars>>

\* ReadEventLog returns an empty batch: break, close, return events_from_log.
ReadEventLogEmpty ==
    /\ pc = "seq_read"
    /\ UNCHANGED <<begin_sec, event_count, served, started, evt_handles,
                   pulled>>
    /\ ReadReturns(events_from_log,
                   open_event_log_exit(ReadOnHandle(handles, log_handle),
                                       log_handle, "normal"),
                   FALSE)

\* GetNumberOfEventLogRecords or ReadEventLog raises win32evtlog.error: the
\* with block is left (the handle is closed), the except branch logs, and
\* `return events_from_log` hands back what was collected so far.
ReadEventLogFails ==
    /\ pc = "seq_read"
    /\ UNCHANGED <<begin_sec, event_count, served, started, evt_handles,
                   pulled>>
    /\ ReadReturns(events_from_log,
                   open_event_log_exit(ReadOnHandle(handles, log_handle),
                                       log_handle, "error"),
                   TRUE)

DefenderChannelNext ==
    /\ pc = "loop"
    /\ chan <= Len(log_types)
    /\ log_types[chan] = DefenderChannel

\* The handle EvtQuery returns.
NewEvtHandle == [closes |-> 0]

\* read_defender_log is left, by return or through its except branch: it
\* calls nothing that closes the handle EvtQuery returned, and the name bound
\* to it goes out of scope. Whether the handle is closed by then is up to the
\* binding's handle object and the interpreter collecting it.
read_defender_log_exit(hs, collected) ==
    IF hs # <<>> /\ collected
    THEN [hs EXCEPT ![Len(hs)].closes = @ + 1]
    ELSE hs

\* read_defender_log: EvtQuery succeeds.
EvtQueryOk ==
    /\ DefenderChannelNext
    /\ ReadStarts
    /\ events_from_log' = <<>>
    /\ evt_handles' = Append(evt_handles, NewEvtHandle)
    /\ pc' = "def_read"
    /\ UNCHANGED <<log_types, log_levels, gathered_events, hours, chan,
                   log_handle, handles, clock, calls, ping, failed, call_base,
                   sawOld>>
    /\ UNCHANGED <<nvars, cvars, dvars, avars, fvars, pvars>>

\* read_defender_log: EvtQuery raises; the except branch returns [].
EvtQueryFails ==
    /\ DefenderChannelNext
    /\ ReadStarts
    /\ UNCHANGED evt_handles
    /\ ReadReturns(<<>>, handles, TRUE)

\* One turn of the while loop: EvtNext returns a non-empty batch (of at most
\* 10); every record is normalized and appended.
EvtNextBatch(events) ==
    /\ pc = "def_read"
    /\ served + Len(events) <= MaxRecords
    /\ served' = served + Len(events)
    /\ event_count' = event_count + Len(events)
    /\ pulled' = pulled \o events
    /\ events_from_log' = ProcessDefenderBatch(events, events_from_log, clock)
    /\ UNCHANGED <<log_types, log_levels, gathered_events, hours, pc, chan,
                   begin_sec, log_handle, handles, evt_handles, clock, calls,
                   ping, started, failed, call_base, sawOld>>
    /\ UNCHANGED <<nvars, cvars, dvars, avars, fvars, pvars>>

\* EvtNext returns nothing: break; return events_from_log.
EvtNextEmpty(collected) ==
    /\ pc = "def_read"
    /\ UNCHANGED <<begin_sec, event_count, served, started, pulled>>
    /\ evt_handles' = read_defender_log_exit(evt_handles, collected)
    /\ ReadReturns(events_from_log, handles, FALSE)

\* EvtNext raises: the except branch returns [].
EvtNextFails(collected) ==
    /\ pc = "def_read"
    /\ UNCHANGED <<begin_sec, event_count, served, started, pulled>>
    /\ evt_handles' = read_defender_log_exit(evt_handles, collected)
    /\ ReadReturns(<<>>, handles, TRUE)

\* The steps of a gather_events call under way.
GatherSteps ==
    \/ \E o \in ProbeOutcomes : PingHost(o)
    \/ GatherReturn
    \/ OpenEventLogOk
    \/ OpenEventLogFails
    \/ \E b \in SeqsUpTo(SeqRecords(Cutoff), MaxBatch) : ReadEventLogBatch(b)
    \/ \E b \in SeqsUpTo(SeqRecords(Cutoff), MaxBatch) : ReadEventLogMalformed(b)
    \/ ReadEventLogEmpty
    \/ ReadEventLogFails
    \/ EvtQueryOk
    \/ EvtQueryFails
    \/ \E b \in SeqsUpTo(DefRecords(Cutoff), Min(DefenderBatchSize, MaxBatch)) :
           EvtNextBatch(b)
    \/ \E collected \in BOOLEAN : EvtNextEmpty(collected)
    \/ \E collected \in BOOLEAN : EvtNextFails(collected)

Next ==
    \/ \E h \in HoursInputs : \E opens \in BOOLEAN : GatherEvents(h, opens)
    \/ GatherSteps

Spec == Init /\ [][Next]_vars

----------------------------------------------------------------------------
----------------------------------------------------------------------------
(* Two iterations of gather_events' channel loop run as interleaved tasks,
   each reading its own channel: SpecInterleaved *)

\* The locals of the running task: those of the loop iteration and of the
\* channel read it called. Every call has its own.
Frame ==
    [pc |-> pc, chan |-> chan, begin_sec |-> begin_sec,
     events_from_log |-> events_from_log, log_handle |-> log_handle,
     event_count |-> event_count, sawOld |-> sawOld, pulled |-> pulled]

\* The frame of the task that runs iteration c of `for log in self.log_types`.
TaskFrame(c) == [NoFrame EXCEPT !.pc = "loop", !.chan = c]

\* Two tasks on one gatherer whose gather_events(1) has found the host up.
InitInterleaved ==
    /\ log_types \in ChannelConfigs
    /\ log_levels \in LevelConfigs
    /\ gathered_events = <<>>
    /\ hours = 1
    /\ pc = "loop"
    /\ chan = 1
    /\ begin_sec = 0
    /\ events_from_log = <<>>
    /\ log_handle = 0
    /\ event_count = 0
    /\ served = 0
    /\ handles = <<>>
    /\ evt_handles = <<>>
    /\ clock = ClockStart
    /\ calls = 1
    /\ ping = "up"
    /\ started = 0
    /\ failed = {}
    /\ call_base = 0
    /\ sawOld = FALSE
    /\ pulled = <<>>
    /\ NormalizeIdle
    /\ AnalyserIdle
    /\ ExportIdle
    /\ PipelineIdle
    /\ task = 1
    /\ parked = TaskFrame(2)
    /\ overlapped = FALSE
    /\ DashboardIdle

Reading(p) == p \in {"seq_read", "def_read"}

ResumeSharingResultList(frame) ==
    [frame EXCEPT !.events_from_log = events_from_log]

\* What a resumed task finds in its locals: what it left there.
Resume(frame) == frame

\* The running task is suspended and the other resumed: the locals are those
\* of the resumed task; the gatherer's attributes and the handles of the
\* process are the same for both.
Switch ==
    /\ task \in {1, 2}
    /\ task' = 3 - task
    /\ parked' = Frame
    /\ overlapped' = (overlapped \/ (Reading(pc) /\ Reading(parked.pc)))
    /\ pc' = Resume(parked).pc
    /\ chan' = Resume(parked).chan
    /\ begin_sec' = Resume(parked).begin_sec
    /\ events_from_log' = Resume(parked).events_from_log
    /\ log_handle' = Resume(parked).log_handle
    /\ event_count' = Resume(parked).event_count
    /\ sawOld' = Resume(parked).sawOld
    /\ pulled' = Resume(parked).pulled
    /\ UNCHANGED <<log_types, log_levels, gathered_events, hours, served,
                   handles, evt_handles, clock, calls, ping, started, failed,
                   call_base>>
    /\ UNCHANGED <<nvars, avars, fvars, pvars, dvars>>

\* Task t runs the iteration for channel t, once.
TaskStarts ==
    /\ chan = task
    /\ \/ OpenEventLogOk
       \/ OpenEventLogFails
       \/ EvtQueryOk
       \/ EvtQueryFails

NextInterleaved ==
    \/ TaskStarts
    \/ \E b \in SeqsUpTo(SeqRecords(Cutoff), MaxBatch) : ReadEventLogBatch(b)
    \/ \E b \in SeqsUpTo(SeqRecords(Cutoff), MaxBatch) : ReadEventLogMalformed(b)
    \/ ReadEventLogEmpty
    \/ ReadEventLogFails
    \/ \E b \in SeqsUpTo(DefRecords(Cutoff), Min(DefenderBatchSize, MaxBatch)) :
           EvtNextBatch(b)
    \/ \E collected \in BOOLEAN : EvtNextEmpty(collected)
    \/ \E collected \in BOOLEAN : EvtNextFails(collected)
    \/ Switch

SpecInterleaved == InitInterleaved /\ [][NextInterleaved]_vars

(* The normalizers as pure functions: SpecNormalize *)

\* Type codes: the five defined event types, and codes that are none of them.
EventTypeInputs ==
    {0, EVENTLOG_ERROR_TYPE, EVENTLOG_WARNING_TYPE, 3,
     EVENTLOG_INFORMATION_TYPE, EVENTLOG_AUDIT_SUCCESS,
     EVENTLOG_AUDIT_FAILURE, 32}

\* Identifiers: within 16 bits, with qualifier bits set above them, and a
\* status code handed over as a negative number.
EventIdInputs == {0, 4624, 65535, 65536, 1073748860, -1073741819}

StringInsertsInputs ==
    {[isNone |-> TRUE, items |-> <<>>],
     [isNone |-> FALSE, items |-> <<>>],
     [isNone |-> FALSE, items |-> <<"a", NoneItem, "b">>]}

SeqRawInputs ==
    {[SeqRaw(ClockStart, p, t, id) EXCEPT !.StringInserts = m] :
        p \in BOOLEAN, t \in EventTypeInputs, id \in EventIdInputs,
        m \in StringInsertsInputs}

LevelInputs == 0..6

\* The EventID element's text as int() reads it: the schema keeps it within
\* 16 bits, the function takes any integer text.
DefenderIdInputs == {0, 1116, 65535, 70000}

DefRawInputs ==
    {[DefRaw(ClockStart, p, l, id) EXCEPT !.Data = d] :
        p \in BOOLEAN, l \in LevelInputs, id \in DefenderIdInputs,
        d \in {<<>>, <<"a", NoneItem, "b">>}}

InitNormalize ==
    /\ norm_in \in
           {[variant |-> "sequential", raw |-> r] : r \in SeqRawInputs}
           \cup {[variant |-> "structured", raw |-> r] : r \in DefRawInputs}
    /\ norm_out = [done |-> FALSE]
    /\ log_types = <<System>>
    /\ log_levels = {}
    /\ gathered_events = <<>>
    /\ hours = 0
    /\ pc = "idle"
    /\ chan = 0
    /\ begin_sec = 0
    /\ events_from_log = <<>>
    /\ log_handle = 0
    /\ event_count = 0
    /\ served = 0
    /\ handles = <<>>
    /\ evt_handles = <<>>
    /\ clock = ClockStart
    /\ calls = 0
    /\ ping = "none"
    /\ started = 0
    /\ failed = {}
    /\ call_base = 0
    /\ sawOld = FALSE
    /\ pulled = <<>>
    /\ AnalyserIdle
    /\ ExportIdle
    /\ PipelineIdle
    /\ InterleavingIdle
    /\ DashboardIdle

\* normalize_logs(event, log_type) applied to the record.
NormalizeLogs ==
    /\ norm_in.variant = "sequential"
    /\ ~norm_out.done
    /\ LET n == normalize_logs(norm_in.raw, System)
       IN norm_out' =
              IF n.raised THEN [done |-> TRUE, raised |-> TRUE]
              ELSE [done |-> TRUE, raised |-> FALSE, event |-> n.event]
    /\ UNCHANGED <<norm_in, cvars, dvars, gvars, avars, fvars, pvars>>

\* normalize_defender_logs(event) applied to the record.
NormalizeDefenderLogs ==
    /\ norm_in.variant = "structured"
    /\ ~norm_out.done
    /\ norm_out' = [done |-> TRUE, raised |-> FALSE,
                    event |-> normalize_defender_logs(norm_in.raw, clock)]
    /\ UNCHANGED <<norm_in, cvars, dvars, gvars, avars, fvars, pvars>>

NextNormalize == NormalizeLogs \/ NormalizeDefenderLogs

SpecNormalize == InitNormalize /\ [][NextNormalize]_vars

\* The five defined event types and the Severity named after each.
DefinedEventTypes ==
    {EVENTLOG_ERROR_TYPE, EVENTLOG_WARNING_TYPE, EVENTLOG_INFORMATION_TYPE,
     EVENTLOG_AUDIT_SUCCESS, EVENTLOG_AUDIT_FAILURE}

SameNamedSeverity(event_type) ==
    CASE event_type = EVENTLOG_ERROR_TYPE -> "ERROR"
      [] event_type = EVENTLOG_WARNING_TYPE -> "WARNING"
      [] event_type = EVENTLOG_INFORMATION_TYPE -> "INFORMATION"
      [] event_type = EVENTLOG_AUDIT_SUCCESS -> "AUDIT_SUCCESS"
      [] event_type = EVENTLOG_AUDIT_FAILURE -> "AUDIT_FAILURE"

\* C29: normalize_logs returns Severity OTHER only for type codes that are
\* none of the five defined event types, gives each defined type code its
\* same-named Severity, and gives every type code the Severity that
\* normalize_logs of gather-logs.py gives it.
C29_DefinedTypesKeepTheirSeverity ==
    (norm_out.done /\ norm_in.variant = "sequential" /\ ~norm_out.raised) =>
        LET event_type == norm_in.raw.EventType
            severity == norm_out.event.Event_Type
        IN /\ severity = "OTHER" => event_type \notin DefinedEventTypes
           /\ event_type \in DefinedEventTypes =>
                  severity = SameNamedSeverity(event_type)
           /\ severity = gather_dash_logs_event_type_map_get(event_type)

\* C2: the Event either normalizer returns, the placeholder included, has an
\* Event_ID in 0..65535 whatever the source identifier.
C2_EventIdWithin16Bits ==
    (norm_out.done /\ ~norm_out.raised) =>
        norm_out.event.Event_ID \in 0..EventIdMask

\* The level codes map_defender_level has a branch for.
DefenderLevelMapped(level) == level <= 4

\* C8: a type or level code outside the normalizer's lookup table gives an
\* Event of Severity OTHER, without raising; every Event's Severity is one of
\* the seven.
C8_UnmappedCodeIsOther ==
    norm_out.done =>
        /\ (norm_in.variant = "sequential" /\ norm_in.raw.TimeGenerated.parses) =>
               /\ ~norm_out.raised
               /\ norm_in.raw.EventType \notin event_type_map_keys =>
                      norm_out.event.Event_Type = "OTHER"
        /\ norm_in.variant = "structured" =>
               /\ ~norm_out.raised
               /\ (norm_in.raw.parses /\ ~DefenderLevelMapped(norm_in.raw.Level)) =>
                      norm_out.event.Event_Type = "OTHER"
        /\ ~norm_out.raised => norm_out.event.Event_Type \in Severities

\* The sequential normalizer has been applied to a code that is none of the
\* defined types.
C8_Witness ==
    /\ norm_out.done
    /\ norm_in.variant = "sequential"
    /\ norm_in.raw.EventType = 32
    /\ ~norm_out.raised
    /\ norm_out.event.Event_Type = "OTHER"

----------------------------------------------------------------------------
(* WindowsEventLogAnalyser (src/log_analysis.py): SpecAnalyse *)

\* A Time text of the log file: one strptime reads as "%Y-%m-%d %H:%M:%S"
\* (then `at` is the second it names) or one it rejects.
Date(at) == [parses |-> TRUE, at |-> at]
BadDate == [parses |-> FALSE, at |-> 0]

\* A row of the log file: the Event_ID text is an integer or not, and the
\* reader may raise on reaching the row (a byte that does not decode).
LogRow(event_id, date) ==
    [kind |-> "row", Event_ID |-> event_id, Time |-> date, Message |-> "m",
     Event |-> System, Source |-> "Service Control Manager",
     Event_Type |-> "ERROR"]
LogRowBadId == [LogRow(0, BadDate) EXCEPT !.kind = "bad id"]
LogRowUnreadable == [LogRow(0, BadDate) EXCEPT !.kind = "unreadable"]

LogRows ==
    {LogRow(4624, Date(1)), LogRow(4624, Date(2)), LogRow(4624, BadDate),
     LogRow(4625, Date(1)), LogRowBadId, LogRowUnreadable}

\* A row of the reference file.
RefRow(event_id, severity, description) ==
    [isInt |-> TRUE, Event_ID |-> event_id, Severity |-> severity,
     Description |-> description]
RefRowBadId ==
    [isInt |-> FALSE, Event_ID |-> 0, Severity |-> "High", Description |-> "x"]

RefRows ==
    {RefRow(4624, "High", "logon"), RefRow(4624, "Low", "logon again"),
     RefRow(4626, "Medium", "device"), RefRowBadId}

\* A file handed to a loader: absent, present without the required columns,
\* or present with them and some rows.
FileStates == {"absent", "no columns", "rows"}

InitAnalyse ==
    /\ AnalyserIdle
    /\ NormalizeIdle
    /\ log_types = <<System>>
    /\ log_levels = {}
    /\ gathered_events = <<>>
    /\ hours = 0
    /\ pc = "idle"
    /\ chan = 0
    /\ begin_sec = 0
    /\ events_from_log = <<>>
    /\ log_handle = 0
    /\ event_count = 0
    /\ served = 0
    /\ handles = <<>>
    /\ evt_handles = <<>>
    /\ clock = ClockStart
    /\ calls = 0
    /\ ping = "none"
    /\ started = 0
    /\ failed = {}
    /\ call_base = 0
    /\ sawOld = FALSE
    /\ pulled = <<>>
    /\ ExportIdle
    /\ PipelineIdle
    /\ InterleavingIdle
    /\ DashboardIdle

\* The for loop of load_reference_events_from_file: each row's Event ID is
\* read with int() and the entry stored under it, a later row replacing an
\* earlier one; a row int() rejects raises out of the loop, the entries
\* stored so far staying.
RECURSIVE ReadReferenceRows(_, _)
ReadReferenceRows(rows, refs) ==
    IF rows = <<>> THEN refs
    ELSE LET row == Head(rows)
         IN IF ~row.isInt THEN refs
            ELSE ReadReferenceRows(
                     Tail(rows),
                     [id \in DOMAIN refs \cup {row.Event_ID} |->
                         IF id = row.Event_ID
                         THEN [event_id |-> row.Event_ID,
                               severity |-> row.Severity,
                               description |-> row.Description]
                         ELSE refs[id]])

ReferenceRowsRaise(rows) == \E i \in 1..Len(rows) : ~rows[i].isInt

\* load_reference_events_from_file(path): an absent file raises
\* FileNotFoundError to the caller; the ValueError raised for missing columns
\* and whatever a row raises are caught by `except Exception`, logged, and
\* the call returns.
load_reference_events_from_file(state, rows) ==
    /\ CASE state = "absent" ->
                /\ last' = "reference: raised FileNotFoundError"
                /\ UNCHANGED reference_events
         [] state = "no columns" ->
                /\ last' = "reference: columns missing, error logged"
                /\ UNCHANGED reference_events
         [] OTHER ->
                /\ reference_events' = ReadReferenceRows(rows, reference_events)
                /\ last' = IF ReferenceRowsRaise(rows)
                           THEN "reference: error logged"
                           ELSE "reference: loaded"
    /\ UNCHANGED <<log_events, event_counter, json_doc>>

LoadReferenceEvents(state, rows) ==
    /\ rows_read + Len(rows) <= MaxRows
    /\ state # "rows" => rows = <<>>
    /\ rows_read' = rows_read + Len(rows)
    /\ load_reference_events_from_file(state, rows)
    /\ UNCHANGED <<gvars, nvars, cvars, dvars, fvars, pvars>>

\* The for loop of load_logs_from_csv: a row whose Event_ID int() rejects is
\* logged and skipped; the reader raising on a row ends the loop.
RECURSIVE ReadLogRows(_, _)
ReadLogRows(rows, acc) ==
    IF rows = <<>> THEN acc
    ELSE LET row == Head(rows)
         IN IF row.kind = "unreadable" THEN acc
            ELSE IF row.kind = "bad id" THEN ReadLogRows(Tail(rows), acc)
            ELSE ReadLogRows(
                     Tail(rows),
                     Append(acc, [event_id |-> row.Event_ID,
                                  log_type |-> row.Event,
                                  source |-> row.Source,
                                  event_type |-> row.Event_Type,
                                  date |-> row.Time,
                                  message |-> row.Message]))

LogRowsRaise(rows) == \E i \in 1..Len(rows) : rows[i].kind = "unreadable"

\* Counter(event.event_id for event in self.log_events)
Counter(events) ==
    [id \in {events[i].event_id : i \in 1..Len(events)} |->
        Cardinality({i \in 1..Len(events) : events[i].event_id = id})]

\* load_logs_from_csv(path): log_events is reset once the file is known to
\* exist; _update_event_counter runs only if the try block reaches its end.
load_logs_from_csv(state, rows) ==
    /\ CASE state = "absent" ->
                /\ last' = "logs: raised FileNotFoundError"
                /\ UNCHANGED <<log_events, event_counter>>
         [] state \in {"no columns", "open fails"} ->
                /\ log_events' = <<>>
                /\ UNCHANGED event_counter
                /\ last' = "logs: error logged"
         [] OTHER ->
                LET events == ReadLogRows(rows, <<>>)
                IN /\ log_events' = events
                   /\ event_counter' =
                          IF LogRowsRaise(rows)
                          THEN event_counter
                          ELSE Counter(events)
                   /\ last' = IF LogRowsRaise(rows)
                              THEN "logs: error logged"
                              ELSE "logs: loaded"
    /\ UNCHANGED <<reference_events, json_doc>>

LoadLogsFromCsv(state, rows) ==
    /\ rows_read + Len(rows) <= MaxRows
    /\ state # "rows" => rows = <<>>
    /\ rows_read' = rows_read + Len(rows)
    /\ load_logs_from_csv(state, rows)
    /\ UNCHANGED <<gvars, nvars, cvars, dvars, fvars, pvars>>

\* sorted(list(self.get_unique_event_ids())): the counter's keys, ascending.
RECURSIVE SortedIds(_)
SortedIds(ids) ==
    IF ids = {} THEN <<>>
    ELSE LET least == CHOOSE x \in ids : \A y \in ids : x <= y
         IN <<least>> \o SortedIds(ids \ {least})

\* [e for e in self.log_events if e.event_id == event_id]
RECURSIVE WithId(_, _)
WithId(events, event_id) ==
    IF events = <<>> THEN <<>>
    ELSE IF Head(events).event_id = event_id
         THEN <<Head(events)>> \o WithId(Tail(events), event_id)
         ELSE WithId(Tail(events), event_id)

\* Where a stable ascending sort puts e in an already sorted list: after every
\* element that is not later than e.
RECURSIVE InsertByDate(_, _)
InsertByDate(sorted, e) ==
    IF sorted = <<>> THEN <<e>>
    ELSE IF Head(sorted).date.at <= e.date.at
         THEN <<Head(sorted)>> \o InsertByDate(Tail(sorted), e)
         ELSE <<e>> \o sorted

RECURSIVE StableSortByDate(_, _)
StableSortByDate(events, sorted) ==
    IF events = <<>> THEN sorted
    ELSE StableSortByDate(Tail(events), InsertByDate(sorted, Head(events)))

SortSpecificEventsSkipped(events) == events

\* specific_events.sort(key=strptime(e.date)) under try / except ValueError:
\* list.sort computes every key before it moves an element, so one date
\* strptime rejects leaves the list in its order.
SortSpecificEvents(events) ==
    IF \E i \in 1..Len(events) : ~events[i].date.parses
    THEN events
    ELSE StableSortByDate(events, <<>>)

RECURSIVE SpecificEvents(_)
SpecificEvents(events) ==
    IF events = <<>> THEN <<>>
    ELSE <<[event_id |-> Head(events).event_id,
            event_type |-> Head(events).event_type,
            source |-> Head(events).source,
            date |-> Head(events).date,
            message |-> Head(events).message]>>
         \o SpecificEvents(Tail(events))

ReferenceGetNearestBelow(refs, event_id) ==
    {id \in DOMAIN refs :
        /\ id <= event_id
        /\ \A other \in DOMAIN refs : other <= event_id => other <= id}

\* self.reference_events.get(event_id): the keys that match, at most one.
ReferenceGet(refs, event_id) == {id \in DOMAIN refs : id = event_id}

\* One group of the document: severity and description are keys of the group
\* only when the reference lookup found an entry.
EventData(event_id, counter, refs, events) ==
    LET base == [event_id |-> event_id,
                 no_occurances |-> counter[event_id],
                 specific_events |->
                     SpecificEvents(SortSpecificEvents(WithId(events, event_id)))]
        found == ReferenceGet(refs, event_id)
    IN IF found = {} THEN base
       ELSE LET reference == refs[CHOOSE id \in found : TRUE]
            IN [event_id |-> base.event_id,
                no_occurances |-> base.no_occurances,
                specific_events |-> base.specific_events,
                severity |-> reference.severity,
                description |-> reference.description]

\* results["events"] as save_to_json builds it.
Results(counter, refs, events) ==
    LET ids == SortedIds(DOMAIN counter)
    IN [i \in 1..Len(ids) |-> EventData(ids[i], counter, refs, events)]

\* How a write to a file ends: open() raises, a write or the flush on close
\* raises after the file was opened, or everything is written.
WriteOutcomes == {"open fails", "write fails", "written"}

open_appending(doc) ==
    [exists |-> TRUE, events |-> doc.events, closed |-> FALSE]

\* open(output_file_path, 'w'): the file exists and is empty, whatever it
\* held.
open_truncating(doc) == [exists |-> TRUE, events |-> <<>>, closed |-> FALSE]

\* json.dump(results, f): the groups reach the file in order, n of them before
\* the write ends; the document is closed only when all were written.
json_dump(f, results, n) ==
    [exists |-> TRUE,
     events |-> f.events \o SubSeq(results, 1, Min(n, Len(results))),
     closed |-> n >= Len(results) + 1]

log_events_sorted_in_place(events) == SortSpecificEvents(events)

\* self.log_events after save_to_json: the sort is applied to the list the
\* comprehension built, not to self.log_events.
log_events_after_save(events) == events

\* save_to_json(path): the document is built, then written under try /
\* except Exception: an error is logged and the call returns.
save_to_json(how, n) ==
    /\ LET results == Results(event_counter, reference_events, log_events)
       IN json_doc' =
              CASE how = "open fails" -> json_doc
                [] how = "write fails" ->
                       json_dump(open_truncating(json_doc), results, n)
                [] OTHER ->
                       json_dump(open_truncating(json_doc), results,
                                 Len(results) + 1)
    /\ last' = IF how = "written" THEN "json: saved" ELSE "json: error logged"
    /\ log_events' = log_events_after_save(log_events)
    /\ UNCHANGED <<reference_events, event_counter>>

\* Where a failing write of `results` may end: before the first group, or
\* after the last and before the closing bracket.
JsonCuts(how) ==
    IF how = "write fails"
    THEN {0, Len(Results(event_counter, reference_events, log_events))}
    ELSE {0}

SaveToJson(how, n) ==
    /\ save_to_json(how, n)
    /\ UNCHANGED rows_read
    /\ UNCHANGED <<gvars, nvars, cvars, dvars, fvars, pvars>>

\* The row sequences a file may hold.
Files(Rows) == {<<>>} \cup SeqsUpTo(Rows, MaxRows)

NextAnalyse ==
    \/ \E st \in FileStates : \E rows \in Files(RefRows) :
           LoadReferenceEvents(st, rows)
    \/ \E st \in FileStates : \E rows \in Files(LogRows) :
           LoadLogsFromCsv(st, rows)
    \/ \E how \in WriteOutcomes : \E n \in JsonCuts(how) : SaveToJson(how, n)

SpecAnalyse == InitAnalyse /\ [][NextAnalyse]_vars

----------------------------------------------------------------------------
(* The exporters and the flat file read back: SpecExport *)

\* str(n), as csv.DictWriter and file.write(str(...)) render an integer: the
\* sign and the decimal digits.
RECURSIVE Digits(_)
Digits(n) == IF n < 10 THEN <<n>> ELSE Append(Digits(n \div 10), n % 10)

str_of(n) == [minus |-> n < 0, digits |-> Digits(IF n < 0 THEN 0 - n ELSE n)]

RECURSIVE DigitsValue(_)
DigitsValue(ds) ==
    IF ds = <<>> THEN 0
    ELSE 10 * DigitsValue(SubSeq(ds, 1, Len(ds) - 1)) + ds[Len(ds)]

\* int(text) raises ValueError on a text without digits.
int_raises(text) == text.digits = <<>>

int_of(text) ==
    IF text.minus THEN 0 - DigitsValue(text.digits) ELSE DigitsValue(text.digits)

\* self.gathered_events[0].keys(): both normalizers build the same keys.
EventKeys ==
    <<"Event", "Time", "Event_Type", "Event_ID", "Event_Category", "Source",
      "Message", "RecordNumber">>

required_fields == {"Event_ID", "Event", "Source", "Event_Type", "Time"}

\* One Event as a row of the flat file: the numbers as their text, the Time
\* as the canonical text (which strptime reads back).
CsvRow(e) ==
    [Event |-> e.Event,
     Time |-> Date(e.Time),
     Event_Type |-> e.Event_Type,
     Event_ID |-> str_of(e.Event_ID),
     Event_Category |-> e.Event_Category,
     Source |-> e.Source,
     Message |-> e.Message,
     RecordNumber |-> str_of(e.RecordNumber)]

writerows_but_first(events) ==
    [i \in 1..(Len(events) - 1) |-> CsvRow(events[i + 1])]

\* writer.writerows(self.gathered_events)
writerows(events) == [i \in 1..Len(events) |-> CsvRow(events[i])]

\* The file after open(file_with_logs, "w") and n lines: the header, then
\* the rows.
csv_written(events, n) ==
    [exists |-> TRUE,
     fieldnames |-> IF n >= 1 THEN EventKeys ELSE <<>>,
     rows |-> IF n >= 2
              THEN SubSeq(writerows(events), 1, Min(n - 1, Len(writerows(events))))
              ELSE <<>>]

save_to_csv_skips_never(events) == FALSE

\* if not self.gathered_events: return
save_to_csv_skips(events) == events = <<>>

\* save_to_csv(file_with_logs): nothing catches what open() or a write
\* raises.
save_to_csv(how, n) ==
    /\ IF save_to_csv_skips(gathered_events)
       THEN /\ last' = "csv: skipped"
            /\ exported' = TRUE
            /\ UNCHANGED csv_file
       ELSE CASE how = "open fails" ->
                     /\ last' = "csv: raised"
                     /\ exported' = FALSE
                     /\ UNCHANGED csv_file
              [] how = "write fails" ->
                     /\ last' = "csv: raised"
                     /\ exported' = FALSE
                     /\ csv_file' = csv_written(gathered_events, n)
              [] OTHER ->
                     /\ last' = "csv: saved"
                     /\ exported' = TRUE
                     /\ csv_file' =
                            csv_written(gathered_events,
                                        Len(gathered_events) + 1)
    /\ UNCHANGED gathered_events

\* Where a failing write of the collection may end: before the header, or
\* before the last row.
CsvCuts(how) == IF how = "write fails" THEN {0, Len(gathered_events)} ELSE {0}

SaveToCsv(how, n) ==
    /\ pc \in {"idle", "returned", "raised"}
    /\ save_to_csv(how, n)
    /\ UNCHANGED <<gctl, nvars, cvars, dvars, astate, ids_file, pvars>>

\* The Severities in the order sorted() puts their names.
SeverityOrder ==
    <<"AUDIT_FAILURE", "AUDIT_SUCCESS", "CRITICAL", "ERROR", "INFORMATION",
      "OTHER", "WARNING">>

\* sorted(unique_event_types)
SortedTypes(events) ==
    SelectSeq(SeverityOrder,
              LAMBDA t : \E i \in 1..Len(events) : events[i].Event_Type = t)

\* sorted(unique_event_ids), each as file.write(str(event_id)) renders it
SortedIdTexts(events) ==
    LET ids == SortedIds({events[i].Event_ID : i \in 1..Len(events)})
    IN [i \in 1..Len(ids) |-> str_of(ids[i])]

\* The pieces save_uniqe_event_ids_and_types_to_the_file writes, one
\* file.write after another: a heading, the types, a heading, the ids.
IdsPieces(events) == 2 + Len(SortedTypes(events)) + Len(SortedIdTexts(events))

\* The file after open(file_path, "w") and n pieces.
ids_written(events, n) ==
    LET types == SortedTypes(events)
        ids == SortedIdTexts(events)
    IN [exists |-> TRUE,
        headings |-> (IF n >= 1 THEN 1 ELSE 0)
                     + (IF n >= 2 + Len(types) THEN 1 ELSE 0),
        types |-> IF n >= 2 THEN SubSeq(types, 1, Min(n - 1, Len(types)))
                  ELSE <<>>,
        ids |-> IF n >= 3 + Len(types)
                THEN SubSeq(ids, 1, Min(n - 2 - Len(types), Len(ids)))
                ELSE <<>>]

\* save_uniqe_event_ids_and_types_to_the_file(file_path): written whatever
\* the collection holds; nothing catches what open() or a write raises.
save_uniqe_event_ids_and_types_to_the_file(how, n) ==
    /\ CASE how = "open fails" ->
                /\ last' = "ids: raised"
                /\ UNCHANGED ids_file
         [] how = "write fails" ->
                /\ last' = "ids: raised"
                /\ ids_file' = ids_written(gathered_events, n)
         [] OTHER ->
                /\ last' = "ids: saved"
                /\ ids_file' =
                       ids_written(gathered_events, IdsPieces(gathered_events))
    /\ UNCHANGED gathered_events

\* Where a failing write may end: before the first heading, after it, or
\* after everything but the last piece.
IdsCuts(how) ==
    IF how = "write fails"
    THEN {0, 1, IdsPieces(gathered_events) - 1}
    ELSE {0}

SaveUniqeEventIdsAndTypes(how, n) ==
    /\ pc \in {"idle", "returned", "raised"}
    /\ save_uniqe_event_ids_and_types_to_the_file(how, n)
    /\ UNCHANGED <<gctl, nvars, cvars, dvars, astate, csv_file, exported, pvars>>

\* What load_logs_from_csv finds at the flat file's path.
CsvState(f) ==
    IF ~f.exists THEN "absent"
    ELSE IF \E field \in required_fields :
                \A i \in 1..Len(f.fieldnames) : f.fieldnames[i] # field
         THEN "no columns"
         ELSE "rows"

\* A row of the flat file as csv.DictReader hands it to the loader, with what
\* int(row['Event_ID']) makes of its Event_ID.
AsLogRow(r) ==
    [kind |-> IF int_raises(r.Event_ID) THEN "bad id" ELSE "row",
     Event_ID |-> IF int_raises(r.Event_ID) THEN 0 ELSE int_of(r.Event_ID),
     Time |-> r.Time,
     Message |-> r.Message,
     Event |-> r.Event,
     Source |-> r.Source,
     Event_Type |-> r.Event_Type]

AsLogRows(rows) == [i \in 1..Len(rows) |-> AsLogRow(rows[i])]

\* load_logs_from_csv on the path save_to_csv writes to.
LoadLogsFromCsvFile ==
    /\ load_logs_from_csv(CsvState(csv_file), AsLogRows(csv_file.rows))
    /\ UNCHANGED rows_read
    /\ UNCHANGED <<gvars, nvars, cvars, dvars, fvars, pvars>>

\* Events as the normalizers return them: of the sequential reader (with
\* qualifier bits above the identifier 4624), of the structured reader, and
\* the placeholder.
EventInputs ==
    {normalize_logs(SeqRaw(ClockStart, TRUE, EVENTLOG_ERROR_TYPE, 1073746448),
                    System).event,
     normalize_defender_logs(DefRaw(ClockStart - 1, TRUE, 4, 1116), ClockStart),
     DefenderPlaceholder(ClockStart)}

\* The gathered collections handed to the exporters.
GatheredInputs == {<<>>} \cup SeqsUpTo(EventInputs, MaxEvents)

\* What the target path of save_to_csv holds beforehand: nothing, or the
\* file of an earlier run.
CsvFileInputs == {AbsentCsv, csv_written(<<DefenderPlaceholder(0)>>, 2)}

\* The reference table of the analyser, as loaded from one row.
ReferenceInput == ReadReferenceRows(<<RefRow(4624, "High", "logon")>>, <<>>)

InitExport ==
    /\ gathered_events \in GatheredInputs
    /\ csv_file \in CsvFileInputs
    /\ ids_file = AbsentIds
    /\ exported = FALSE
    /\ reference_events = ReferenceInput
    /\ log_events = <<>>
    /\ event_counter = <<>>
    /\ json_doc = [exists |-> FALSE, events |-> <<>>, closed |-> FALSE]
    /\ rows_read = 0
    /\ last = "none"
    /\ NormalizeIdle
    /\ PipelineIdle
    /\ InterleavingIdle
    /\ DashboardIdle
    /\ log_types = <<System>>
    /\ log_levels = {}
    /\ hours = 0
    /\ pc = "idle"
    /\ chan = 0
    /\ begin_sec = 0
    /\ events_from_log = <<>>
    /\ log_handle = 0
    /\ event_count = 0
    /\ served = 0
    /\ handles = <<>>
    /\ evt_handles = <<>>
    /\ clock = ClockStart
    /\ calls = 0
    /\ ping = "none"
    /\ started = 0
    /\ failed = {}
    /\ call_base = 0
    /\ sawOld = FALSE
    /\ pulled = <<>>

NextExport ==
    \/ \E how \in WriteOutcomes : \E n \in CsvCuts(how) : SaveToCsv(how, n)
    \/ \E how \in WriteOutcomes : \E n \in IdsCuts(how) :
           SaveUniqeEventIdsAndTypes(how, n)
    \/ LoadLogsFromCsvFile
    \/ \E how \in WriteOutcomes : \E n \in JsonCuts(how) : SaveToJson(how, n)

SpecExport == InitExport /\ [][NextExport]_vars

----------------------------------------------------------------------------
(* LogProcessingOrchestrator.run_pipeline (src/main.py): SpecPipeline *)

\* The reference files a run may find: none, one without the required
\* columns, or one with them and at most one row.
ReferenceFiles == {<<>>} \cup SeqsUpTo(RefRows, 1)

InitPipeline ==
    /\ log_types \in ChannelConfigs
    /\ log_levels \in LevelConfigs
    /\ gathered_events = <<>>
    /\ hours = 0
    /\ pc = "idle"
    /\ chan = 0
    /\ begin_sec = 0
    /\ events_from_log = <<>>
    /\ log_handle = 0
    /\ event_count = 0
    /\ served = 0
    /\ handles = <<>>
    /\ evt_handles = <<>>
    /\ clock = ClockStart
    /\ calls = 0
    /\ ping = "none"
    /\ started = 0
    /\ failed = {}
    /\ call_base = 0
    /\ sawOld = FALSE
    /\ pulled = <<>>
    /\ NormalizeIdle
    /\ AnalyserIdle
    /\ csv_file \in CsvFileInputs
    /\ ids_file = AbsentIds
    /\ exported = FALSE
    /\ ppc = "run_pipeline"
    /\ success_count = 0
    /\ executed = <<>>
    /\ cleanups = 0
    /\ returned = "none"
    /\ InterleavingIdle
    /\ DashboardIdle

\* The entries of run_pipeline's `steps` list, in order.
StepNames ==
    <<"Gather Logs", "Analyze Logs", "Send to Database",
      "Launch Visualization">>

CriticalStepsGatherOnly == {"Gather Logs"}

\* if step_name in ["Gather Logs", "Analyze Logs"]: break
CriticalSteps == {"Gather Logs", "Analyze Logs"}

Result(ok) == IF ok THEN "True" ELSE "False"

\* `for step_name, step_func in steps` calls step_func(), which goes on to
\* `next`.
StepStarts(name, next) ==
    /\ executed' = Append(executed, [step |-> name, result |-> "running"])
    /\ ppc' = next
    /\ UNCHANGED success_count

\* The running step goes on to `next` without returning.
StepGoesOn(next) ==
    /\ ppc' = next
    /\ UNCHANGED <<success_count, executed>>

\* `if step_func():` once step `name` has returned `ok`: success_count is
\* raised on True; on False a critical step breaks out of the loop, which
\* leads to the finally clause. `next` is where the loop goes otherwise.
AfterStep(name, ok, next) ==
    /\ success_count' = IF ok THEN success_count + 1 ELSE success_count
    /\ ppc' = IF ~ok /\ name \in CriticalSteps THEN "finally" ELSE next

\* The running step returns `ok`.
StepReturns(ok, next) ==
    /\ executed' = [executed EXCEPT ![Len(executed)].result = Result(ok)]
    /\ AfterStep(executed[Len(executed)].step, ok, next)

\* A step that starts and returns `ok` in one go.
StepRuns(name, ok, next) ==
    /\ executed' = Append(executed, [step |-> name, result |-> Result(ok)])
    /\ AfterStep(name, ok, next)

\* step1_gather_logs is called: the temporary host name file is written and
\* the gatherer built; an exception there is caught and the step returns
\* False.
Step1Starts(built) ==
    /\ ppc = "run_pipeline"
    /\ IF built
       THEN StepStarts(StepNames[1], "step1: gather_events")
       ELSE StepRuns(StepNames[1], FALSE, "step2")
    /\ UNCHANGED <<gvars, nvars, cvars, dvars, avars, fvars, cleanups,
                   returned>>

\* step1_gather_logs: gatherer.gather_events(self.config.hours_back) on the
\* gatherer it has just built.
Step1GatherEvents(h, ip_file_opens) ==
    /\ ppc = "step1: gather_events"
    /\ calls = 0
    /\ GatherEvents(h, ip_file_opens)

Step1GatherSteps ==
    /\ ppc = "step1: gather_events"
    /\ GatherSteps

\* step1_gather_logs once gather_events is over: an exception is caught and
\* the step returns False; `if not events` returns False.
Step1AfterGather ==
    /\ ppc = "step1: gather_events"
    /\ pc \in {"returned", "raised"}
    /\ IF pc = "raised" \/ gathered_events = <<>>
       THEN StepReturns(FALSE, "step2")
       ELSE StepGoesOn("step1: save_to_csv")
    /\ UNCHANGED <<gvars, nvars, cvars, dvars, avars, fvars, cleanups,
                   returned>>

\* gatherer.save_to_csv(self.config.raw_logs_file); what it raises is caught
\* by the step, which returns False.
Step1SaveToCsv(how, n) ==
    /\ ppc = "step1: save_to_csv"
    /\ save_to_csv(how, n)
    /\ IF last' = "csv: raised"
       THEN StepReturns(FALSE, "step2")
       ELSE StepGoesOn("step1: save ids")
    /\ UNCHANGED <<gctl, nvars, cvars, dvars, astate, ids_file, cleanups,
                   returned>>

\* gatherer.save_uniqe_event_ids_and_types_to_the_file(...); return True.
Step1SaveUniqeEventIdsAndTypes(how, n) ==
    /\ ppc = "step1: save ids"
    /\ save_uniqe_event_ids_and_types_to_the_file(how, n)
    /\ StepReturns(last' # "ids: raised", "step2")
    /\ UNCHANGED <<gctl, nvars, cvars, dvars, astate, csv_file, exported,
                   cleanups, returned>>

\* step2_analyze_logs is called; up to the reference table: False if the raw
\* logs file is absent; the reference file is loaded if it exists.
Step2LoadReference(state, rows) ==
    /\ ppc = "step2"
    /\ state # "rows" => rows = <<>>
    /\ IF ~csv_file.exists
       THEN /\ StepRuns(StepNames[2], FALSE, "step3")
            /\ UNCHANGED <<reference_events, log_events, event_counter,
                           json_doc, last>>
       ELSE /\ StepStarts(StepNames[2], "step2: load_logs")
            /\ IF state = "absent"
               THEN UNCHANGED <<reference_events, log_events, event_counter,
                                json_doc, last>>
               ELSE load_reference_events_from_file(state, rows)
    /\ UNCHANGED <<gvars, nvars, cvars, dvars, rows_read, fvars, cleanups,
                   returned>>

\* What load_logs_from_csv returns: self.log_events, or [] from its except
\* branch.
load_logs_from_csv_result(outcome, events) ==
    IF outcome = "logs: loaded" THEN events ELSE <<>>

\* log_events = analyzer.load_logs_from_csv(raw_logs_file), whose open() of
\* the file may raise inside its try block; `if not log_events` returns
\* False, as does an exception.
Step2LoadLogs(opens) ==
    /\ ppc = "step2: load_logs"
    /\ load_logs_from_csv(IF opens THEN CsvState(csv_file) ELSE "open fails",
                          AsLogRows(csv_file.rows))
    /\ IF load_logs_from_csv_result(last', log_events') = <<>>
       THEN StepReturns(FALSE, "step3")
       ELSE StepGoesOn("step2: save_to_json")
    /\ UNCHANGED <<gvars, nvars, cvars, dvars, rows_read, fvars, cleanups,
                   returned>>

\* analyzer.save_to_json(analysis_results_file); return True.
Step2SaveToJson(how, n) ==
    /\ ppc = "step2: save_to_json"
    /\ save_to_json(how, n)
    /\ StepReturns(TRUE, "step3")
    /\ UNCHANGED <<gvars, nvars, cvars, dvars, rows_read, fvars, cleanups,
                   returned>>

\* step3_send_to_database: False if the analysis results file is absent or
\* send_data_to_database raises; not a critical step.
Step3SendToDatabase(sent) ==
    /\ ppc = "step3"
    /\ StepRuns(StepNames[3], json_doc.exists /\ sent, "step4")
    /\ UNCHANGED <<gvars, nvars, cvars, dvars, avars, fvars, cleanups,
                   returned>>

\* step4_launch_visualization: True when auto_launch is off or the script
\* ran; the loop ends after it.
Step4LaunchVisualization(launched) ==
    /\ ppc = "step4"
    /\ StepRuns(StepNames[4], launched, "finally")
    /\ UNCHANGED <<gvars, nvars, cvars, dvars, avars, fvars, cleanups,
                   returned>>

\* if success_count >= 3
PipelineSucceeded(count) == count >= 3

\* The loop is over or was broken out of: finally: self.cleanup(); then the
\* summary is logged and the result returned.
Finally ==
    /\ ppc = "finally"
    /\ cleanups' = cleanups + 1
    /\ returned' = Result(PipelineSucceeded(success_count))
    /\ ppc' = "done"
    /\ UNCHANGED <<gvars, nvars, cvars, dvars, avars, fvars, success_count,
                   executed>>

\* KeyboardInterrupt, which no step catches, reaches run_pipeline between
\* two calls of a step: the finally clause runs cleanup() and the exception
\* leaves run_pipeline, which returns nothing.
Interrupted ==
    /\ ppc \notin {"none", "finally", "done", "interrupted"}
    /\ pc \in {"idle", "returned", "raised"}
    /\ cleanups' = cleanups + 1
    /\ ppc' = "interrupted"
    /\ UNCHANGED <<gvars, nvars, cvars, dvars, avars, fvars, success_count,
                   executed, returned>>

NextPipeline ==
    \/ \E built \in BOOLEAN : Step1Starts(built)
    \/ \E h \in HoursInputs : \E opens \in BOOLEAN :
           Step1GatherEvents(h, opens)
    \/ Step1GatherSteps
    \/ Step1AfterGather
    \/ \E how \in WriteOutcomes : \E n \in CsvCuts(how) :
           Step1SaveToCsv(how, n)
    \/ \E how \in WriteOutcomes : \E n \in IdsCuts(how) :
           Step1SaveUniqeEventIdsAndTypes(how, n)
    \/ \E st \in FileStates : \E rows \in ReferenceFiles :
           Step2LoadReference(st, rows)
    \/ \E opens \in BOOLEAN : Step2LoadLogs(opens)
    \/ \E how \in WriteOutcomes : \E n \in JsonCuts(how) :
           Step2SaveToJson(how, n)
    \/ \E sent \in BOOLEAN : Step3SendToDatabase(sent)
    \/ \E launched \in BOOLEAN : Step4LaunchVisualization(launched)
    \/ Finally
    \/ Interrupted

SpecPipeline == InitPipeline /\ [][NextPipeline]_vars

----------------------------------------------------------------------------
(* Claims about the analyser's report *)

Groups == {json_doc.events[i] : i \in 1..Len(json_doc.events)}

\* The loaded Events with the given id, as many times as they were loaded.
LoadedWithId(event_id) ==
    {i \in 1..Len(log_events) : log_events[i].event_id = event_id}

\* C3: whatever load_logs_from_csv calls came before, every group save_to_json
\* writes has no_occurances equal to the number of loaded Events with its
\* event_id, which is the length of its specific_events.
C3_OccurrencesCountLoadedEvents ==
    last = "json: saved" =>
        \A g \in Groups :
            /\ g.no_occurances = Cardinality(LoadedWithId(g.event_id))
            /\ g.no_occurances = Len(g.specific_events)

\* C9: a group written by save_to_json has the severity and description keys
\* exactly when the reference table has an entry under the group's event_id,
\* and then they are that entry's.
C9_ReferenceFieldsOnExactMatch ==
    last = "json: saved" =>
        \A g \in Groups :
            /\ "severity" \in DOMAIN g <=> g.event_id \in DOMAIN reference_events
            /\ "description" \in DOMAIN g <=> g.event_id \in DOMAIN reference_events
            /\ g.event_id \in DOMAIN reference_events =>
                   /\ g.severity = reference_events[g.event_id].severity
                   /\ g.description = reference_events[g.event_id].description

\* A document with a group the reference table annotates and a group with a
\* higher id it has no entry for.
C9_Witness ==
    /\ last = "json: saved"
    /\ \E g \in Groups : "severity" \in DOMAIN g /\ g.severity = "Low"
    /\ \E g \in Groups :
           /\ "severity" \notin DOMAIN g
           /\ \E id \in DOMAIN reference_events : id < g.event_id

GroupsAscending ==
    \A i, j \in 1..Len(json_doc.events) :
        i < j => json_doc.events[i].event_id < json_doc.events[j].event_id

\* Two specific events whose dates both parse stand in the order of their
\* timestamps.
AscendingByTime(events) ==
    \A i, j \in 1..Len(events) :
        (i < j /\ events[i].date.parses /\ events[j].date.parses) =>
            events[i].date.at <= events[j].date.at

\* C10 as stated: the groups are in strictly ascending event_id order, one
\* group per id, and every group's specific_events are in ascending order of
\* timestamp.
C10_GroupsAndEventsAscending ==
    last = "json: saved" =>
        /\ GroupsAscending
        /\ \A g \in Groups : AscendingByTime(g.specific_events)

AllDatesParse(events) == \A i \in 1..Len(events) : events[i].date.parses

\* C10 amended: the groups are in strictly ascending event_id order, one
\* group per id; a group all of whose dates parse has its specific_events in
\* ascending order of timestamp, and a group holding a date that does not
\* parse has them in the order the Events were loaded.
C10_AscendingWhenDatesParse ==
    last = "json: saved" =>
        /\ GroupsAscending
        /\ \A g \in Groups :
               IF AllDatesParse(g.specific_events)
               THEN AscendingByTime(g.specific_events)
               ELSE g.specific_events =
                        SpecificEvents(WithId(log_events, g.event_id))

\* A document of two groups, one of which holds two Events that were loaded
\* later-first and are written earlier-first.
C10_Witness ==
    /\ last = "json: saved"
    /\ Len(json_doc.events) = 2
    /\ \E g \in Groups :
           /\ Len(g.specific_events) = 2
           /\ AllDatesParse(g.specific_events)
           /\ g.specific_events[1].date.at < g.specific_events[2].date.at
           /\ g.specific_events # SpecificEvents(WithId(log_events, g.event_id))

----------------------------------------------------------------------------
(* Claims about gather_events and the sequential reader *)

\* The Events the running gather_events call has added to gathered_events.
AddedByCall ==
    {gathered_events[i] : i \in (call_base + 1)..Len(gathered_events)}

\* C1: in a gather_events call no channel read (OpenEventLog, EvtQuery) is
\* started before ping_host has returned success in that call; if ping_host
\* returned false, no channel read is started in that call.
C1_NoReadBeforeReachable ==
    /\ started > 0 => ping = "up"
    /\ pc \in {"loop", "seq_read", "def_read"} => ping = "up"
    /\ ping = "down" => started = 0 /\ pc = "returned"

\* A second call finds the host down after a first call that read channels:
\* it returns having started no read.
C1_Witness ==
    /\ calls = 2
    /\ pc = "returned"
    /\ ping = "down"
    /\ started = 0
    /\ Len(gathered_events) > 0

\* C4: every handle read_event_log opened is closed exactly once by the time
\* read_event_log is left, by return or by exception, and never before; no
\* read is issued on a closed handle.
C4_HandleClosedExactlyOnce ==
    \A h \in 1..Len(handles) :
        /\ handles[h].lateReads = 0
        /\ handles[h].closes = IF pc = "seq_read" /\ h = log_handle THEN 0 ELSE 1

\* The first channel failed mid-stream after its handle was opened, and the
\* second channel's read left with an exception: both handles are closed.
C4_Witness ==
    /\ pc = "raised"
    /\ 1 \in failed
    /\ Len(handles) = 2
    /\ \A h \in 1..2 : handles[h].closes = 1

\* C5: when gather_events returns, a channel whose read failed has
\* contributed no Event of this call, and every configured channel was read.
C5_FailedChannelContributesNothing ==
    (pc = "returned" /\ ping = "up") =>
        /\ started = Len(log_types)
        /\ \A c \in failed :
               \A e \in AddedByCall : e.Event # log_types[c]

\* C6: once read_event_log has pulled a batch holding a record older than
\* the cutoff, it is not positioned to pull another batch.
C6_StopsOnceBatchHoldsOld == ~(pc = "seq_read" /\ sawOld)

\* C7: after gather_events, every Event of the gathered collection has a
\* Severity in log_levels.
C7_GatheredSeveritiesRetained ==
    pc = "returned" =>
        \A i \in 1..Len(gathered_events) :
            gathered_events[i].Event_Type \in log_levels

\* C11: a gather_events call with hours <= 0 raises before ping_host is called
\* and before any channel read is started, and leaves gathered_events as it
\* was when the call began.
C11_NonPositiveHoursRejected ==
    (calls > 0 /\ hours <= 0) =>
        /\ pc = "raised"
        /\ ping = "none"
        /\ started = 0
        /\ Len(gathered_events) = call_base

\* A second call with hours = 0 on a gatherer whose first call gathered
\* Events and obtained handles: it has raised, nothing probed or read.
C11_Witness ==
    /\ calls = 2
    /\ hours = 0
    /\ pc = "raised"
    /\ ping = "none"
    /\ gathered_events # <<>>
    /\ handles # <<>>

\* C13: a gather_events call that finds the host unreachable returns without
\* raising, and the collection it returns (self.gathered_events) is empty.
C13_UnreachableReturnsEmpty ==
    ping = "down" =>
        /\ pc = "returned"
        /\ gathered_events = <<>>

\* C20: when gather_events has returned or raised, every handle a channel
\* read obtained, from OpenEventLog or from EvtQuery, has been closed (once).
C20_NoHandleOpenAfterGather ==
    pc \in {"returned", "raised"} =>
        /\ \A h \in 1..Len(handles) : handles[h].closes = 1
        /\ \A h \in 1..Len(evt_handles) : evt_handles[h].closes = 1

\* C21: a malformed record never makes a channel read, and with it
\* gather_events, end by raising: a call that has started a channel read is
\* never left through an exception.
C21_MalformedRecordNeverRaises == ~(pc = "raised" /\ started > 0)

----------------------------------------------------------------------------
----------------------------------------------------------------------------
(* Claims about the structured query reader and the per-record filter *)

\* The Events a step appends to gathered_events.
Returned ==
    SubSeq(gathered_events', Len(gathered_events) + 1, Len(gathered_events'))

\* The step in which read_defender_log is left, by return or through its
\* except branch.
DefenderReadLeft == pc = "def_read" /\ pc' = "loop"

\* Event i of `events` stands for record i of `records`: the placeholder
\* (Severity ERROR, Event_ID 0) for a record that did not render or parse,
\* the record's own id and mapped level otherwise.
StandsFor(events, records) ==
    /\ Len(events) = Len(records)
    /\ \A i \in 1..Len(records) :
           IF records[i].parses
           THEN /\ events[i].Event_ID = records[i].EventID
                /\ events[i].Event_Type = map_defender_level(records[i].Level)
                /\ events[i].Source = records[i].Provider
           ELSE /\ events[i].Event_ID = 0
                /\ events[i].Event_Type = "ERROR"
                /\ events[i].Source = "LogParser"

\* C22 as stated: however read_defender_log is left, it returns as many
\* Events as it pulled records.
C22_ReturnedCountIsPulledCount ==
    [][DefenderReadLeft => Len(Returned) = Len(pulled')]_vars

\* C22, amended: while read_defender_log reads, and when it returns without
\* EvtNext having raised, its Events stand one for one for the records
\* pulled, a placeholder for each record that failed; when EvtNext raises it
\* returns no Event.
C22_OnePerRecordUnlessQueryFails ==
    [][/\ pc' = "def_read" => StandsFor(events_from_log', pulled')
       /\ (DefenderReadLeft /\ failed' = failed) =>
              /\ Returned = events_from_log
              /\ StandsFor(Returned, pulled')
       /\ (DefenderReadLeft /\ failed' # failed) => Returned = <<>>]_vars

\* A Defender read has returned normally after pulling a record that failed
\* to render followed by one that parsed.
C22_Witness ==
    /\ pc = "loop"
    /\ chan > 1
    /\ log_types[chan - 1] = DefenderChannel
    /\ (chan - 1) \notin failed
    /\ Len(pulled) >= 2
    /\ ~pulled[1].parses
    /\ pulled[2].parses
    /\ Len(gathered_events) - call_base >= 2

\* The Events of the records whose Severity passes the inclusion filter, in
\* the records' order, whatever their times.
Kept(records, log_type, levels) ==
    LET norm == [i \in 1..Len(records) |-> normalize_logs(records[i], log_type)]
        kept == SelectSeq(norm, LAMBDA x : x.event_type_string \in levels)
    IN [i \in 1..Len(kept) |-> kept[i].event]

\* C23: read_event_log applies no per-record time filter: while it reads and
\* when it returns, its result holds, in the order read, the Event of every
\* record of every batch it has read whose Severity passes the inclusion
\* filter, records older than the cutoff included, and no other Event.
C23_NoPerRecordTimeFilter ==
    [][/\ pc' = "seq_read" =>
              events_from_log' = Kept(pulled', log_types[chan'], log_levels)
       /\ (pc = "seq_read" /\ pc' = "loop") =>
              Returned = Kept(pulled', log_types[chan], log_levels)]_vars

\* The first channel's read has returned normally: it pulled a record older
\* than the cutoff and a record of a Severity the filter drops; the old
\* record's Event was returned and the other's was not.
C23_Witness ==
    /\ pc = "loop"
    /\ chan = 2
    /\ log_types[1] # DefenderChannel
    /\ failed = {}
    /\ \E i \in 1..Len(pulled) : pulled[i].TimeGenerated.sec < Cutoff
    /\ \E i \in (call_base + 1)..Len(gathered_events) :
           gathered_events[i].Time < Cutoff
    /\ \E i \in 1..Len(pulled) :
           event_type_map_get(pulled[i].EventType) \notin log_levels
    /\ Len(gathered_events) - call_base = Len(pulled) - 1

----------------------------------------------------------------------------
(* Claims about channel reads run as interleaved tasks *)

FrameOf(t) == IF t = task THEN Frame ELSE parked

\* Task t's read has returned to its loop iteration.
Finished(t) == FrameOf(t).pc = "loop" /\ FrameOf(t).chan = t + 1

\* What channel c has contributed to gathered_events.
ChannelResult(c) ==
    SelectSeq(gathered_events, LAMBDA e : e.Event = log_types[c])

\* What the read of channel c returns when it runs with no other read under
\* way and pulls the records task c pulled.
AloneResult(c) ==
    IF log_types[c] = DefenderChannel
    THEN IF c \in failed THEN <<>>
         ELSE ProcessDefenderBatch(FrameOf(c).pulled, <<>>, clock)
    ELSE ProcessBatch(FrameOf(c).pulled, <<>>, log_types[c],
                      log_levels).events_from_log

\* C24: however the reads of two channels are interleaved, a read that has
\* returned has contributed exactly what it returns when run alone on the
\* records it pulled; no handle is closed twice or read after it was closed;
\* and a step of the running task leaves the other task's frame alone.
C24_InterleavingKeepsChannelResults ==
    [][/\ \A t \in {1, 2} :
              Finished(t)' => ChannelResult(t)' = AloneResult(t)'
       /\ \A h \in 1..Len(handles') :
              handles'[h].lateReads = 0 /\ handles'[h].closes <= 1
       /\ task' = task => parked' = parked]_vars

\* Both reads have returned Events after one was suspended in mid-read while
\* the other was in mid-read.
C24_Witness ==
    /\ overlapped
    /\ Finished(1)
    /\ Finished(2)
    /\ ChannelResult(1) # <<>>
    /\ ChannelResult(2) # <<>>

(* Claims about the loaders' failures and the exporters *)

\* C12: load_reference_events_from_file on a file that lacks a required
\* column does not return normally: no state is reached in which the call
\* has logged the missing columns and returned.
C12_MissingColumnsFailFast ==
    last # "reference: columns missing, error logged"

CsvOutcomes == {"csv: skipped", "csv: raised", "csv: saved"}
LogsOutcomes ==
    {"logs: raised FileNotFoundError", "logs: error logged", "logs: loaded"}
ExportOutcomes ==
    CsvOutcomes \cup {"ids: raised", "ids: saved", "json: error logged",
                      "json: saved"}

\* C14: a save_to_csv call made while gathered_events is empty returns as
\* skipped, without raising, and leaves the target path as it was (absent, or
\* holding what it held); a call is skipped only then.
C14_EmptyCollectionSkipsExport ==
    [][/\ (gathered_events = <<>> /\ last' \in CsvOutcomes) =>
              /\ last' = "csv: skipped"
              /\ csv_file' = csv_file
       /\ last' = "csv: skipped" => gathered_events = <<>>]_vars

\* save_to_csv was skipped on an empty collection, whatever failure the
\* environment had in store; the file of an earlier run is still there.
C14_Witness ==
    /\ gathered_events = <<>>
    /\ last = "csv: skipped"
    /\ csv_file = csv_written(<<DefenderPlaceholder(0)>>, 2)

\* Counter(event["Event_ID"] for event in gathered_events): the multiset of
\* the collection's identifiers.
GatheredIdCount ==
    [id \in {gathered_events[i].Event_ID : i \in 1..Len(gathered_events)} |->
        Cardinality({i \in 1..Len(gathered_events) :
                        gathered_events[i].Event_ID = id})]

RoundTripSame ==
    /\ last = "logs: loaded"
    /\ Len(log_events) = Len(gathered_events)
    /\ Counter(log_events) = GatheredIdCount

\* C16 as stated: for any gathered collection, once save_to_csv has returned
\* and load_logs_from_csv has then been called on the target path, the
\* loader has loaded as many Events as the collection holds, with the same
\* multiset of identifiers.
C16_RoundTripAnyCollection ==
    (exported /\ last \in LogsOutcomes) => RoundTripSame

\* C16 amended: the same for any non-empty gathered collection.
C16_RoundTripNonEmptyCollection ==
    (exported /\ last \in LogsOutcomes /\ gathered_events # <<>>) =>
        RoundTripSame

\* A collection of two Events with the same identifier, read with qualifier
\* bits above it, exported and reloaded.
C16_Witness ==
    /\ exported
    /\ last = "logs: loaded"
    /\ Len(gathered_events) = 2
    /\ Len(log_events) = 2
    /\ \A i \in 1..2 : log_events[i].event_id = 4624
    /\ csv_file = csv_written(gathered_events, 3)

\* C17: a save_to_json call that follows a save_to_json call which wrote the
\* document writes the same document; no save_to_json call, failed or not,
\* changes log_events, event_counter or reference_events.
C17_SaveToJsonIdempotent ==
    [][/\ (last = "json: saved" /\ last' = "json: saved") =>
              json_doc' = json_doc
       /\ last' \in {"json: saved", "json: error logged"} =>
              UNCHANGED <<log_events, event_counter, reference_events>>]_vars

\* A document of two groups has been written, one group annotated from the
\* reference table, and save_to_json can be called again.
C17_Witness ==
    /\ last = "json: saved"
    /\ json_doc.closed
    /\ Len(json_doc.events) = 2
    /\ \E g \in Groups : "severity" \in DOMAIN g
    /\ ENABLED SaveToJson("written", 0)

\* C18: every step that changes one of the three output files leaves it
\* holding the complete new content (a step that leaves it unchanged leaves
\* the previous content).
C18_NoHalfWrittenFile ==
    [][/\ csv_file' # csv_file =>
              csv_file' = csv_written(gathered_events,
                                      Len(gathered_events) + 1)
       /\ ids_file' # ids_file =>
              ids_file' = ids_written(gathered_events,
                                      IdsPieces(gathered_events))
       /\ json_doc' # json_doc =>
              json_doc' =
                  json_dump(
                      open_truncating(json_doc),
                      Results(event_counter, reference_events, log_events),
                      Len(Results(event_counter, reference_events,
                                  log_events)) + 1)]_vars

\* C19: no exporter call, whether it saved, skipped or failed, changes
\* gathered_events, log_events, event_counter or reference_events.
C19_ExportKeepsResults ==
    [][last' \in ExportOutcomes =>
           UNCHANGED <<gathered_events, log_events, event_counter,
                       reference_events>>]_vars

\* Both exports have failed part-way, the flat file after a reload: the
\* collection and the loaded Events are still in memory.
C19_Witness ==
    /\ last = "json: error logged"
    /\ json_doc.exists /\ ~json_doc.closed
    /\ ~exported
    /\ csv_file.exists /\ Len(csv_file.rows) < Len(gathered_events)
    /\ Len(log_events) = 2
    /\ Len(gathered_events) = 2
    /\ DOMAIN event_counter # {}
    /\ DOMAIN reference_events # {}


\* The orders in which the loaded Events could have been loaded.
LoadOrders(events) ==
    {[i \in 1..Len(events) |-> events[f[i]]] :
        f \in Permutations(1..Len(events))}

\* C25: the document save_to_json has written is the one it writes from the
\* same Events loaded in any other order, Events of one id that share a
\* timestamp included.
C25_ReportIndependentOfLoadOrder ==
    (last = "json: saved" /\ json_doc.closed) =>
        \A p \in LoadOrders(log_events) :
            Results(Counter(p), reference_events, p) = json_doc.events

\* C15: a run_pipeline run that gathered no Event has, when it is over, run
\* save_to_json, and the document at the results path has an empty events
\* sequence.
C15_ZeroEventsStillWritesDocument ==
    (ppc = "done" /\ pc = "returned" /\ gathered_events = <<>>) =>
        /\ json_doc.exists
        /\ json_doc.closed
        /\ json_doc.events = <<>>

----------------------------------------------------------------------------
(* Claims about run_pipeline *)

\* The steps started so far are the first ones of the list, in its order,
\* and only the last of them may still be running.
StartedInOrder ==
    /\ Len(executed) <= Len(StepNames)
    /\ \A i \in 1..Len(executed) : executed[i].step = StepNames[i]
    /\ \A i \in 1..(Len(executed) - 1) : executed[i].result # "running"

\* C26: run_pipeline runs its steps in the fixed order, each starting only
\* after the previous one returned; no step is started after Gather Logs or
\* Analyze Logs returned False, while Launch Visualization is run whatever
\* Send to Database returned; cleanup runs once, after the last executed
\* step, however the run ends.
C26_StepsInOrderThenCleanup ==
    /\ [](/\ StartedInOrder
          /\ \A i \in 1..Len(executed) :
                 (/\ executed[i].step \in {"Gather Logs", "Analyze Logs"}
                  /\ executed[i].result = "False") => i = Len(executed)
          /\ (ppc \in {"finally", "done"} /\ Len(executed) >= 3) =>
                 /\ Len(executed) = 4
                 /\ executed[4].step = "Launch Visualization"
          /\ cleanups = IF ppc \in {"done", "interrupted"} THEN 1 ELSE 0)
    /\ [][cleanups = 1 => executed' = executed]_vars

\* A run is over in which Send to Database returned False and Launch
\* Visualization was run after it; cleanup has run.
C26_Witness ==
    /\ ppc = "done"
    /\ Len(executed) = 4
    /\ executed[3].result = "False"
    /\ executed[4].result = "True"
    /\ cleanups = 1

\* C27: whenever run_pipeline has returned True, Gather Logs, Analyze Logs
\* and Send to Database all returned True in that run.
C27_TrueMeansCoreStepsSucceeded ==
    returned = "True" =>
        /\ Len(executed) >= 3
        /\ \A i \in 1..3 : executed[i].result = "True"

----------------------------------------------------------------------------
(* Claims about the reference table *)

\* C28: load_reference_events_from_file is all-or-nothing: a call that fails
\* part-way through the file leaves reference_events exactly as it was before
\* the call.
C28_FailedReferenceLoadChangesNothing ==
    [][last' = "reference: error logged" =>
           reference_events' = reference_events]_vars

----------------------------------------------------------------------------
(* The log viewer's paging callback (src/log-visualisation.py) *)

\* The rows load_data_from_mysql puts into df: event_id, event_type, source,
\* date (minutes, no two alike) and message, oldest first.
Df ==
    [i \in 1..DfRows |->
        [event_id |-> IF i % 10 = 0 THEN 1116 ELSE 4624,
         event_type |-> IF i % 2 = 0 THEN "ERROR" ELSE "INFORMATION",
         source |-> IF i % 10 = 0 THEN "System" ELSE "Security",
         date |-> i * 720,
         message |-> ""]]

\* What the user may pick or type into the filter components.
SourceInputs == {"All", "Security", "System"}
TypeInputs == {"All", "ERROR"}
EventIdTextInputs ==
    {<<>>, <<"4", "6", "2", "4">>, <<" ", "1", "1">>, <<"(">>}
DateInputs == {0, 10}
TimeInputs == {"", "13:00", "late"}

Digit(d) == <<"0", "1", "2", "3", "4", "5", "6", "7", "8", "9">>[d + 1]

\* astype(str) of a non-negative event_id: its decimal digits.
RECURSIVE astype_str(_)
astype_str(n) ==
    IF n < 10 THEN <<Digit(n)>>
    ELSE astype_str(n \div 10) \o <<Digit(n % 10)>>

\* event_id.strip()
RECURSIVE strip(_)
strip(text) ==
    IF text = <<>> THEN <<>>
    ELSE IF Head(text) = " " THEN strip(Tail(text))
    ELSE IF text[Len(text)] = " " THEN strip(SubSeq(text, 1, Len(text) - 1))
    ELSE text

\* str.contains takes its pattern as a regular expression: one with an
\* opening bracket that nothing closes does not compile, and re.error is
\* raised.
re_error(pattern) ==
    \E i \in 1..Len(pattern) :
        /\ pattern[i] = "("
        /\ \A j \in (i + 1)..Len(pattern) : pattern[j] # ")"

\* A pattern of digits is found where it occurs as a substring; the empty
\* pattern is found everywhere.
contains(text, pattern) ==
    \E i \in 1..(Len(text) - Len(pattern) + 1) :
        SubSeq(text, i, i + Len(pattern) - 1) = pattern

\* pd.to_datetime(f"{date} {time or default}", errors='coerce'): NaT when the
\* text is no time of day.
to_datetime(date, time, default) ==
    LET minutes == CASE time = "" -> default
                     [] time = "13:00" -> 13 * 60
                     [] OTHER -> -1
    IN [isNaT |-> minutes < 0, at |-> date * 24 * 60 + minutes]

\* sort_values(by='date', ascending=False)
RECURSIVE sort_values_descending(_)
sort_values_descending(rows) ==
    IF rows = <<>> THEN <<>>
    ELSE LET latest == CHOOSE i \in 1..Len(rows) :
                           \A j \in 1..Len(rows) : rows[j].date <= rows[i].date
         IN <<rows[latest]>>
            \o sort_values_descending(
                   SubSeq(rows, 1, latest - 1)
                   \o SubSeq(rows, latest + 1, Len(rows)))

\* The filter branch up to the sort: the rows of df that pass the source,
\* type and event id filters and lie between the start and the end; a
\* comparison with NaT holds of no row.
filtered_df(source, event_type, event_id, start, start_t, end, end_t) ==
    LET start_dt == to_datetime(start, start_t, 0)
        end_dt == to_datetime(end, end_t, 23 * 60 + 59)
    IN SelectSeq(Df, LAMBDA r :
           /\ source # "All" => r.source = source
           /\ event_type # "All" => r.event_type = event_type
           /\ event_id # <<>> =>
                  contains(astype_str(r.event_id), strip(event_id))
           /\ start # 0 => (~start_dt.isNaT /\ r.date >= start_dt.at)
           /\ end # 0 => (~end_dt.isNaT /\ r.date <= end_dt.at))

Stored(logs) == [isNone |-> FALSE, logs |-> logs]

FilterIds ==
    {"source_filter", "type_filter", "date_range", "start_time", "end_time",
     "event_id_filter"}

\* update_logs_and_page: what the callback returns for the two stores, or
\* that it raised (the stores then keep their data).
update_logs_and_page(triggered_id, source, event_type, start, end, start_t, end_t, event_id, stored_logs, current_page) ==
    IF triggered_id \in FilterIds
    THEN IF event_id # <<>> /\ re_error(strip(event_id))
         THEN [raised |-> TRUE, logs |-> stored_logs, page |-> current_page]
         ELSE [raised |-> FALSE,
               logs |-> Stored(sort_values_descending(
                            filtered_df(source, event_type, event_id, start,
                                        start_t, end, end_t))),
               page |-> 0]
    ELSE IF triggered_id \in {"prev_page", "next_page"} /\ ~stored_logs.isNone
    THEN IF triggered_id = "prev_page" /\ current_page > 0
         THEN [raised |-> FALSE, logs |-> stored_logs,
               page |-> current_page - 1]
         ELSE IF /\ triggered_id = "next_page"
                 /\ (current_page + 1) * PageSize < Len(stored_logs.logs)
         THEN [raised |-> FALSE, logs |-> stored_logs,
               page |-> current_page + 1]
         ELSE [raised |-> FALSE, logs |-> stored_logs, page |-> current_page]
    ELSE IF stored_logs.isNone
    THEN [raised |-> FALSE, logs |-> Stored(sort_values_descending(Df)),
          page |-> 0]
    ELSE [raised |-> FALSE, logs |-> stored_logs, page |-> current_page]

\* The callback runs on the components' values and the stores' data, and its
\* result is written to the stores.
Callback(triggered_id) ==
    LET result == update_logs_and_page(
                      triggered_id, source_filter', type_filter', start_date',
                      end_date', start_time', end_time', event_id_filter',
                      filtered_logs_store, page_store)
    IN /\ filtered_logs_store' = result.logs
       /\ page_store' = result.page

Filters ==
    <<source_filter, type_filter, event_id_filter, start_date, end_date,
      start_time, end_time>>

InitDashboard ==
    /\ log_types = <<System>>
    /\ log_levels = {}
    /\ gathered_events = <<>>
    /\ hours = 0
    /\ pc = "idle"
    /\ chan = 0
    /\ begin_sec = 0
    /\ events_from_log = <<>>
    /\ log_handle = 0
    /\ event_count = 0
    /\ served = 0
    /\ handles = <<>>
    /\ evt_handles = <<>>
    /\ clock = ClockStart
    /\ calls = 0
    /\ ping = "none"
    /\ started = 0
    /\ failed = {}
    /\ call_base = 0
    /\ sawOld = FALSE
    /\ pulled = <<>>
    /\ NormalizeIdle
    /\ AnalyserIdle
    /\ ExportIdle
    /\ PipelineIdle
    /\ InterleavingIdle
    /\ DashboardIdle

\* The page is loaded: the callback runs with no component having triggered
\* it.
FirstLoad ==
    /\ filtered_logs_store.isNone
    /\ UNCHANGED Filters
    /\ Callback("")
    /\ UNCHANGED <<gvars, nvars, avars, fvars, pvars, cvars>>

\* The user changes one filter component, which triggers the callback.
SourceFilterChanged(value) ==
    /\ value # source_filter
    /\ source_filter' = value
    /\ UNCHANGED <<type_filter, event_id_filter, start_date, end_date,
                   start_time, end_time>>
    /\ Callback("source_filter")
    /\ UNCHANGED <<gvars, nvars, avars, fvars, pvars, cvars>>

TypeFilterChanged(value) ==
    /\ value # type_filter
    /\ type_filter' = value
    /\ UNCHANGED <<source_filter, event_id_filter, start_date, end_date,
                   start_time, end_time>>
    /\ Callback("type_filter")
    /\ UNCHANGED <<gvars, nvars, avars, fvars, pvars, cvars>>

EventIdFilterChanged(value) ==
    /\ value # event_id_filter
    /\ event_id_filter' = value
    /\ UNCHANGED <<source_filter, type_filter, start_date, end_date,
                   start_time, end_time>>
    /\ Callback("event_id_filter")
    /\ UNCHANGED <<gvars, nvars, avars, fvars, pvars, cvars>>

DateRangeChanged(start, end) ==
    /\ <<start, end>> # <<start_date, end_date>>
    /\ start = start_date \/ end = end_date
    /\ start_date' = start
    /\ end_date' = end
    /\ UNCHANGED <<source_filter, type_filter, event_id_filter, start_time,
                   end_time>>
    /\ Callback("date_range")
    /\ UNCHANGED <<gvars, nvars, avars, fvars, pvars, cvars>>

StartTimeChanged(value) ==
    /\ value # start_time
    /\ start_time' = value
    /\ UNCHANGED <<source_filter, type_filter, event_id_filter, start_date,
                   end_date, end_time>>
    /\ Callback("start_time")
    /\ UNCHANGED <<gvars, nvars, avars, fvars, pvars, cvars>>

EndTimeChanged(value) ==
    /\ value # end_time
    /\ end_time' = value
    /\ UNCHANGED <<source_filter, type_filter, event_id_filter, start_date,
                   end_date, start_time>>
    /\ Callback("end_time")
    /\ UNCHANGED <<gvars, nvars, avars, fvars, pvars, cvars>>

\* A click on Previous or Next.
PrevPage ==
    /\ UNCHANGED Filters
    /\ Callback("prev_page")
    /\ UNCHANGED <<gvars, nvars, avars, fvars, pvars, cvars>>

NextPage ==
    /\ UNCHANGED Filters
    /\ Callback("next_page")
    /\ UNCHANGED <<gvars, nvars, avars, fvars, pvars, cvars>>

NextDashboard ==
    \/ FirstLoad
    \/ \E value \in SourceInputs : SourceFilterChanged(value)
    \/ \E value \in TypeInputs : TypeFilterChanged(value)
    \/ \E value \in EventIdTextInputs : EventIdFilterChanged(value)
    \/ \E start \in DateInputs : \E end \in DateInputs :
           DateRangeChanged(start, end)
    \/ \E value \in TimeInputs : StartTimeChanged(value)
    \/ \E value \in TimeInputs : EndTimeChanged(value)
    \/ PrevPage
    \/ NextPage

SpecDashboard == InitDashboard /\ [][NextDashboard]_vars

----------------------------------------------------------------------------
(* Claims about the log viewer's paging *)

\* The page index points into the stored logs.
PageInRange ==
    /\ page_store >= 0
    /\ IF filtered_logs_store.logs = <<>>
       THEN page_store = 0
       ELSE page_store * PageSize < Len(filtered_logs_store.logs)

\* C30: after any sequence of filter changes and Prev / Next clicks the
\* stored page index p satisfies p >= 0 and p * 25 < number of stored logs
\* (p = 0 when there are none); a Prev or Next click changes p by at most one
\* and leaves the stored logs unchanged; any filter change resets p to 0.
C30_PageWithinStoredLogs ==
    /\ []PageInRange
    /\ [][(Filters' = Filters /\ ~filtered_logs_store.isNone) =>
              /\ filtered_logs_store' = filtered_logs_store
              /\ page_store' - page_store \in {-1, 0, 1}]_vars
    /\ [][Filters' # Filters => page_store' = 0]_vars

====
